---- MODULE Spec2Model ----
(***************************************************************************)
(* Model of the tge-g3n GPU state cache (package gls, type GLS) and of the *)
(* rendering pipeline (package renderer, type Renderer).                   *)
(*                                                                         *)
(* The state cache is modelled together with the driver it wraps: every    *)
(* gl.* call of the source is recorded in the driver-call log `calls` and  *)
(* applied to the driver state `gl`, every cache operation is recorded in  *)
(* the request log `reqs`.                                                 *)
(***************************************************************************)
EXTENDS Integers, Sequences, FiniteSets, TLC

VARIABLES
    gs,        \* the GLS object: cached state, statistics, programs
    gl,        \* state held by the driver, as set by the gl.* calls
    reqs,      \* log of the cache operations requested, oldest first
    calls,     \* log of the driver calls issued, oldest first
    node,      \* the scene graph: the attributes of every node
    visible,   \* the scene graph: the visibility flag of every node
    r,         \* the Renderer object
    out,       \* what the last Render call did and returned
    frames     \* number of Render calls made so far

glsVars == <<gs, gl, reqs, calls>>

sceneVars == <<node, visible>>

rendVars == <<node, visible, r, out, frames>>

vars == <<gs, gl, reqs, calls, node, visible, r, out, frames>>

----------------------------------------------------------------------------
(* Bounds of the model. *)

\* Number of cache operations a behaviour performs after New().
MaxOps == 3

----------------------------------------------------------------------------
(* Program constants. *)

capUndef == 0
capDisabled == 1
capEnabled == 2
uintUndef == 65535
intFalse == 0
intTrue == 1

\* OpenGL enumerants used by setDefaultState (values of the package's
\* constants, which are the standard OpenGL ones).
DEPTH_TEST == 2929
LEQUAL == 515
CCW == 2305
BACK == 1029
CULL_FACE == 2884
BLEND == 3042
FUNC_ADD == 32774
SRC_ALPHA == 770
ONE_MINUS_SRC_ALPHA == 771
VERTEX_PROGRAM_POINT_SIZE == 34370
PROGRAM_POINT_SIZE == 34370
MULTISAMPLE == 32925
POLYGON_OFFSET_FILL == 32823
POLYGON_OFFSET_LINE == 10754
POLYGON_OFFSET_POINT == 10753

----------------------------------------------------------------------------
(* float32 values.  A float32 is a record; Go's == on float32 is F32Eq:    *)
(* a NaN equals nothing, itself included.                                  *)

F32(x) == [nan |-> FALSE, v |-> x]

NaN == [nan |-> TRUE, v |-> 0]

F32Eq(a, b) == ~a.nan /\ ~b.nan /\ a.v = b.v

----------------------------------------------------------------------------
(* Inputs of the cache operations. *)

\* A capability of the default state and one that New() never touches
\* (3089 is SCISSOR_TEST).
CapArgs == {DEPTH_TEST, 3089}

\* 32778 is FUNC_SUBTRACT.
BlendEquationArgs == {FUNC_ADD, 32778}

BlendEquationSeparateArgs == {<<0, 0>>, <<FUNC_ADD, FUNC_ADD>>, <<32778, FUNC_ADD>>}

\* <<1, 0>> is (ONE, ZERO).
BlendFuncArgs == {<<SRC_ALPHA, ONE_MINUS_SRC_ALPHA>>, <<1, 0>>}

BlendFuncSeparateArgs ==
    {<<SRC_ALPHA, ONE_MINUS_SRC_ALPHA, 1, 0>>, <<1, 0, 1, 0>>,
     <<uintUndef, uintUndef, uintUndef, uintUndef>>}

\* 513 is LESS.
DepthFuncArgs == {LEQUAL, 513}

\* 2304 is CW.
FrontFaceArgs == {CCW, 2304}

\* 33984 is TEXTURE0.
ActiveTextureArgs == {33984, uintUndef}

LineWidthArgs == {F32(0), F32(1), NaN}

\* <<1032, 6913>> is (FRONT_AND_BACK, LINE).
PolygonModeArgs == {<<0, 0>>, <<1032, 6913>>}

PolygonOffsetArgs == {<<F32(-1), F32(-1)>>, <<F32(0), F32(0)>>, <<NaN, F32(0)>>}

ViewportArgs == {<<0, 0, 1, 1>>, <<0, 0, 2, 2>>}

\* 1028 is FRONT.
CullFaceArgs == {BACK, 1028}

\* Every capability id the model passes to Enable/Disable.
CapIds ==
    {DEPTH_TEST, CULL_FACE, BLEND, VERTEX_PROGRAM_POINT_SIZE, PROGRAM_POINT_SIZE,
     MULTISAMPLE, POLYGON_OFFSET_FILL, POLYGON_OFFSET_LINE, POLYGON_OFFSET_POINT}
    \cup CapArgs

----------------------------------------------------------------------------
(* The GLS object and the driver.                                          *)

\* Stats: the zero value of the statistics structure.
Stats0 ==
    [Shaders |-> 0, Vaos |-> 0, Buffers |-> 0, Textures |-> 0, Caphits |-> 0,
     UnilocHits |-> 0, UnilocMiss |-> 0, Unisets |-> 0, Drawcalls |-> 0]

\* new(GLS): every field holds Go's zero value.  prog = 0 is the nil program.
GLSZero ==
    [stats |-> Stats0, prog |-> 0, programs |-> {}, checkErrors |-> FALSE,
     activeTexture |-> 0,
     viewportX |-> 0, viewportY |-> 0, viewportWidth |-> 0, viewportHeight |-> 0,
     lineWidth |-> F32(0), sideView |-> 0, frontFace |-> 0, depthFunc |-> 0,
     depthMask |-> 0,
     capabilities |-> [c \in CapIds |-> capUndef],
     blendEquation |-> 0, blendSrc |-> 0, blendDst |-> 0,
     blendEquationRGB |-> 0, blendEquationAlpha |-> 0,
     blendSrcRGB |-> 0, blendSrcAlpha |-> 0, blendDstRGB |-> 0, blendDstAlpha |-> 0,
     polygonModeFace |-> 0, polygonModeMode |-> 0,
     polygonOffsetFactor |-> F32(0), polygonOffsetUnits |-> F32(0)]

\* The driver before any call of the cache reached it.  A piece of driver
\* state is <<>> as long as it holds the context's own default, and the tuple
\* of the values of the last driver call that set it afterwards.
GLDriver0 ==
    [caps |-> [c \in CapIds |-> <<>>],
     activeTexture |-> <<>>, blendEquation |-> <<>>, blendFunc |-> <<>>,
     depthFunc |-> <<>>, depthMask |-> <<>>, frontFace |-> <<>>, cullFace |-> <<>>,
     lineWidth |-> <<>>, polygonMode |-> <<>>, polygonOffset |-> <<>>,
     viewport |-> <<>>]

\* reset: the internal state kept of the OpenGL context.
reset(g) ==
    [g EXCEPT
        !.lineWidth = F32(0),
        !.sideView = uintUndef,
        !.frontFace = 0,
        !.depthFunc = 0,
        !.depthMask = uintUndef,
        !.capabilities = [c \in CapIds |-> capUndef],
        !.programs = {},
        !.prog = 0,
        !.activeTexture = uintUndef,
        !.blendEquation = uintUndef,
        !.blendSrc = uintUndef,
        !.blendDst = uintUndef,
        !.blendEquationRGB = 0,
        !.blendEquationAlpha = 0,
        !.blendSrcRGB = uintUndef,
        !.blendSrcAlpha = uintUndef,
        !.blendDstRGB = uintUndef,
        !.blendDstAlpha = uintUndef,
        !.polygonModeFace = 0,
        !.polygonModeMode = 0,
        !.polygonOffsetFactor = F32(-1),
        !.polygonOffsetUnits = F32(-1)]

\* The cached driver state of a GLS: every field but the statistics.
CachedState(g) == [g EXCEPT !.stats = Stats0]

----------------------------------------------------------------------------
(* One cache operation on the machine s = [gs, gl, reqs, calls].           *)
(*                                                                         *)
(* A request entry records the operation, its arguments, `val` (the        *)
(* arguments as the cache stores them), `was` (the cached slots the        *)
(* operation compares with, before the call), `ncalls` (driver calls it    *)
(* issued), `changed` (whether it changed the cached state) and `steps`    *)
(* (the order of its driver call and its cache update).                    *)

Req(op, args, val, was, ncalls, changed, steps) ==
    [op |-> op, args |-> args, val |-> val, was |-> was, ncalls |-> ncalls,
     changed |-> changed, steps |-> steps]

\* The early return of a setter: no driver call, the GLS becomes g2 (g2 is
\* the GLS itself, or the GLS with a hit counted).
Elide(s, op, args, val, was, g2) ==
    [s EXCEPT
        !.gs = g2,
        !.reqs = Append(@, Req(op, args, val, was, 0,
                               CachedState(g2) # CachedState(s.gs), <<>>))]

\* A setter whose cache update comes before its driver call.
PerformStoreFirst(s, op, args, val, was, g2, d2) ==
    [s EXCEPT
        !.gs = g2,
        !.gl = d2,
        !.calls = Append(@, [fn |-> op, args |-> args]),
        !.reqs = Append(@, Req(op, args, val, was, 1,
                               CachedState(g2) # CachedState(s.gs),
                               <<"store", "gl">>))]

\* The rest of a setter: the driver call fn(args), by which the driver
\* becomes d2, and then the update of the cache, by which the GLS becomes g2.
Perform(s, op, args, val, was, g2, d2) ==
    [s EXCEPT
        !.gs = g2,
        !.gl = d2,
        !.calls = Append(@, [fn |-> op, args |-> args]),
        !.reqs = Append(@, Req(op, args, val, was, 1,
                               CachedState(g2) # CachedState(s.gs),
                               <<"gl", "store">>))]

\* A pass-through operation: the driver call and nothing else.
PassThrough(s, op, args, d2) ==
    [s EXCEPT
        !.gl = d2,
        !.calls = Append(@, [fn |-> op, args |-> args]),
        !.reqs = Append(@, Req(op, args, args, <<>>, 1, FALSE, <<"gl">>))]

ActiveTexture(s, texture) ==
    IF s.gs.activeTexture = texture
    THEN Elide(s, "ActiveTexture", <<texture>>, <<texture>>, <<s.gs.activeTexture>>, s.gs)
    ELSE Perform(s, "ActiveTexture", <<texture>>, <<texture>>, <<s.gs.activeTexture>>,
                 [s.gs EXCEPT !.activeTexture = texture],
                 [s.gl EXCEPT !.activeTexture = <<texture>>])

BlendEquation(s, mode) ==
    IF s.gs.blendEquation = mode
    THEN Elide(s, "BlendEquation", <<mode>>, <<mode>>, <<s.gs.blendEquation>>, s.gs)
    ELSE Perform(s, "BlendEquation", <<mode>>, <<mode>>, <<s.gs.blendEquation>>,
                 [s.gs EXCEPT !.blendEquation = mode],
                 [s.gl EXCEPT !.blendEquation = <<mode, mode>>])

BlendEquationSeparate(s, modeRGB, modeAlpha) ==
    LET args == <<modeRGB, modeAlpha>>
        was == <<s.gs.blendEquationRGB, s.gs.blendEquationAlpha>>
    IN  IF s.gs.blendEquationRGB = modeRGB /\ s.gs.blendEquationAlpha = modeAlpha
        THEN Elide(s, "BlendEquationSeparate", args, args, was, s.gs)
        ELSE Perform(s, "BlendEquationSeparate", args, args, was,
                     [s.gs EXCEPT !.blendEquationRGB = modeRGB,
                                  !.blendEquationAlpha = modeAlpha],
                     [s.gl EXCEPT !.blendEquation = <<modeRGB, modeAlpha>>])

BlendFunc(s, sfactor, dfactor) ==
    LET args == <<sfactor, dfactor>>
        was == <<s.gs.blendSrc, s.gs.blendDst>>
    IN  IF s.gs.blendSrc = sfactor /\ s.gs.blendDst = dfactor
        THEN Elide(s, "BlendFunc", args, args, was, s.gs)
        ELSE Perform(s, "BlendFunc", args, args, was,
                     [s.gs EXCEPT !.blendSrc = sfactor, !.blendDst = dfactor],
                     [s.gl EXCEPT !.blendFunc = <<sfactor, dfactor, sfactor, dfactor>>])

BlendFuncSeparate(s, srcRGB, dstRGB, srcAlpha, dstAlpha) ==
    LET args == <<srcRGB, dstRGB, srcAlpha, dstAlpha>>
        was == <<s.gs.blendSrcRGB, s.gs.blendDstRGB, s.gs.blendSrcAlpha, s.gs.blendDstAlpha>>
    IN  IF /\ s.gs.blendSrcRGB = srcRGB /\ s.gs.blendDstRGB = dstRGB
           /\ s.gs.blendSrcAlpha = srcAlpha /\ s.gs.blendDstAlpha = dstAlpha
        THEN Elide(s, "BlendFuncSeparate", args, args, was, s.gs)
        ELSE Perform(s, "BlendFuncSeparate", args, args, was,
                     [s.gs EXCEPT !.blendSrcRGB = srcRGB, !.blendDstRGB = dstRGB,
                                  !.blendSrcAlpha = srcAlpha, !.blendDstAlpha = dstAlpha],
                     [s.gl EXCEPT !.blendFunc = args])

DepthFunc(s, mode) ==
    IF s.gs.depthFunc = mode
    THEN Elide(s, "DepthFunc", <<mode>>, <<mode>>, <<s.gs.depthFunc>>, s.gs)
    ELSE Perform(s, "DepthFunc", <<mode>>, <<mode>>, <<s.gs.depthFunc>>,
                 [s.gs EXCEPT !.depthFunc = mode],
                 [s.gl EXCEPT !.depthFunc = <<mode>>])

DepthMask(s, flag) ==
    LET val == <<IF flag THEN intTrue ELSE intFalse>>
        was == <<s.gs.depthMask>>
    IN  IF s.gs.depthMask = intTrue /\ flag
        THEN Elide(s, "DepthMask", <<flag>>, val, was, s.gs)
        ELSE IF s.gs.depthMask = intFalse /\ ~flag
        THEN Elide(s, "DepthMask", <<flag>>, val, was, s.gs)
        ELSE Perform(s, "DepthMask", <<flag>>, val, was,
                     [s.gs EXCEPT !.depthMask = IF flag THEN intTrue ELSE intFalse],
                     [s.gl EXCEPT !.depthMask = <<flag>>])

\* An Enable whose early return counts no hit.
EnableHitNotCounted(s, cap) ==
    IF s.gs.capabilities[cap] = capEnabled
    THEN Elide(s, "Enable", <<cap>>, <<capEnabled>>, <<s.gs.capabilities[cap]>>, s.gs)
    ELSE Perform(s, "Enable", <<cap>>, <<capEnabled>>, <<s.gs.capabilities[cap]>>,
                 [s.gs EXCEPT !.capabilities[cap] = capEnabled],
                 [s.gl EXCEPT !.caps[cap] = <<TRUE>>])

Enable(s, cap) ==
    IF s.gs.capabilities[cap] = capEnabled
    THEN Elide(s, "Enable", <<cap>>, <<capEnabled>>, <<s.gs.capabilities[cap]>>,
               [s.gs EXCEPT !.stats.Caphits = @ + 1])
    ELSE Perform(s, "Enable", <<cap>>, <<capEnabled>>, <<s.gs.capabilities[cap]>>,
                 [s.gs EXCEPT !.capabilities[cap] = capEnabled],
                 [s.gl EXCEPT !.caps[cap] = <<TRUE>>])

Disable(s, cap) ==
    IF s.gs.capabilities[cap] = capDisabled
    THEN Elide(s, "Disable", <<cap>>, <<capDisabled>>, <<s.gs.capabilities[cap]>>,
               [s.gs EXCEPT !.stats.Caphits = @ + 1])
    ELSE Perform(s, "Disable", <<cap>>, <<capDisabled>>, <<s.gs.capabilities[cap]>>,
                 [s.gs EXCEPT !.capabilities[cap] = capDisabled],
                 [s.gl EXCEPT !.caps[cap] = <<FALSE>>])

CullFace(s, mode) ==
    PassThrough(s, "CullFace", <<mode>>, [s.gl EXCEPT !.cullFace = <<mode>>])

\* SetCheckErrors: the flag stored, no driver call.
SetCheckErrors(s, enable) ==
    [s EXCEPT
        !.gs.checkErrors = enable,
        !.reqs = Append(@, Req("SetCheckErrors", <<enable>>, <<enable>>,
                               <<s.gs.checkErrors>>, 0, s.gs.checkErrors # enable,
                               <<"store">>))]

ClearColor(s, red, green, blue, alpha) ==
    PassThrough(s, "ClearColor", <<red, green, blue, alpha>>, s.gl)

Clear(s, mask) == PassThrough(s, "Clear", <<mask>>, s.gl)

Scissor(s, x, y, width, height) == PassThrough(s, "Scissor", <<x, y, width, height>>, s.gl)

\* A read of the GLS: no driver call, nothing stored, val returned.
Read(s, op, val) ==
    [s EXCEPT !.reqs = Append(@, Req(op, <<>>, val, <<>>, 0, FALSE, <<>>))]

CheckErrors(s) == Read(s, "CheckErrors", <<s.gs.checkErrors>>)

GetViewport(s) ==
    Read(s, "GetViewport",
         <<s.gs.viewportX, s.gs.viewportY, s.gs.viewportWidth, s.gs.viewportHeight>>)

\* A query of the driver: the driver call fn(args), whose answer res is
\* returned; nothing is stored.
Query(s, op, args, fn, res) ==
    [s EXCEPT
        !.calls = Append(@, [fn |-> fn, args |-> args]),
        !.reqs = Append(@, Req(op, args, <<res>>, <<>>, 1, FALSE, <<"gl">>))]

GetString(s, name, res) == Query(s, "GetString", <<name>>, "GetString", res)

\* A FrontFace that forgets the cached depth function when it reaches the
\* driver.
FrontFaceClobbersDepthFunc(s, mode) ==
    IF s.gs.frontFace = mode
    THEN Elide(s, "FrontFace", <<mode>>, <<mode>>, <<s.gs.frontFace>>, s.gs)
    ELSE Perform(s, "FrontFace", <<mode>>, <<mode>>, <<s.gs.frontFace>>,
                 [s.gs EXCEPT !.frontFace = mode, !.depthFunc = 0],
                 [s.gl EXCEPT !.frontFace = <<mode>>])

FrontFace(s, mode) ==
    IF s.gs.frontFace = mode
    THEN Elide(s, "FrontFace", <<mode>>, <<mode>>, <<s.gs.frontFace>>, s.gs)
    ELSE Perform(s, "FrontFace", <<mode>>, <<mode>>, <<s.gs.frontFace>>,
                 [s.gs EXCEPT !.frontFace = mode],
                 [s.gl EXCEPT !.frontFace = <<mode>>])

LineWidth(s, width) ==
    IF F32Eq(s.gs.lineWidth, width)
    THEN Elide(s, "LineWidth", <<width>>, <<width>>, <<s.gs.lineWidth>>, s.gs)
    ELSE Perform(s, "LineWidth", <<width>>, <<width>>, <<s.gs.lineWidth>>,
                 [s.gs EXCEPT !.lineWidth = width],
                 [s.gl EXCEPT !.lineWidth = <<width>>])

PolygonMode(s, face, mode) ==
    LET args == <<face, mode>>
        was == <<s.gs.polygonModeFace, s.gs.polygonModeMode>>
    IN  IF s.gs.polygonModeFace = face /\ s.gs.polygonModeMode = mode
        THEN Elide(s, "PolygonMode", args, args, was, s.gs)
        ELSE Perform(s, "PolygonMode", args, args, was,
                     [s.gs EXCEPT !.polygonModeFace = face, !.polygonModeMode = mode],
                     [s.gl EXCEPT !.polygonMode = args])

PolygonOffset(s, factor, units) ==
    LET args == <<factor, units>>
        was == <<s.gs.polygonOffsetFactor, s.gs.polygonOffsetUnits>>
    IN  IF F32Eq(s.gs.polygonOffsetFactor, factor) /\ F32Eq(s.gs.polygonOffsetUnits, units)
        THEN Elide(s, "PolygonOffset", args, args, was, s.gs)
        ELSE Perform(s, "PolygonOffset", args, args, was,
                     [s.gs EXCEPT !.polygonOffsetFactor = factor,
                                  !.polygonOffsetUnits = units],
                     [s.gl EXCEPT !.polygonOffset = args])

\* Viewport has no early return: the driver call is issued on every call.
Viewport(s, x, y, width, height) ==
    LET args == <<x, y, width, height>>
        was == <<s.gs.viewportX, s.gs.viewportY, s.gs.viewportWidth, s.gs.viewportHeight>>
    IN  Perform(s, "Viewport", args, args, was,
                [s.gs EXCEPT !.viewportX = x, !.viewportY = y,
                             !.viewportWidth = width, !.viewportHeight = height],
                [s.gl EXCEPT !.viewport = args])

\* setDefaultState: the initial state of OpenGL for this context.
setDefaultState(s) ==
    LET s1 == Enable(s, DEPTH_TEST)
        s2 == DepthFunc(s1, LEQUAL)
        s3 == FrontFace(s2, CCW)
        s4 == CullFace(s3, BACK)
        s5 == Enable(s4, CULL_FACE)
        s6 == Enable(s5, BLEND)
        s7 == BlendEquation(s6, FUNC_ADD)
        s8 == BlendFunc(s7, SRC_ALPHA, ONE_MINUS_SRC_ALPHA)
        s9 == Enable(s8, VERTEX_PROGRAM_POINT_SIZE)
        s10 == Enable(s9, PROGRAM_POINT_SIZE)
        s11 == Enable(s10, MULTISAMPLE)
        s12 == Enable(s11, POLYGON_OFFSET_FILL)
        s13 == Enable(s12, POLYGON_OFFSET_LINE)
    IN  Enable(s13, POLYGON_OFFSET_POINT)

\* New: a new GLS on a fresh context.
New ==
    LET s0 == [gs |-> reset(GLSZero), gl |-> GLDriver0, reqs |-> <<>>, calls |-> <<>>]
        s1 == setDefaultState(s0)
    IN  [s1 EXCEPT !.gs.checkErrors = TRUE]

\* Number of requests New() makes itself (the calls of setDefaultState).
NewReqs == Len(New.reqs)

----------------------------------------------------------------------------
(* The values of the renderer's variables while only the cache is used.    *)

NoScene ==
    /\ node = [n \in {1} |-> [kind |-> "other"]]
    /\ visible = [n \in {1} |-> TRUE]
    /\ r = [scene |-> 0]
    /\ out = [called |-> FALSE]
    /\ frames = 0

----------------------------------------------------------------------------
(* The cache as a state machine: New(), then up to MaxOps operations.      *)

Cur == [gs |-> gs, gl |-> gl, reqs |-> reqs, calls |-> calls]

Become(s) ==
    /\ gs' = s.gs /\ gl' = s.gl /\ reqs' = s.reqs /\ calls' = s.calls
    /\ UNCHANGED rendVars

CanCall == Len(reqs) < NewReqs + MaxOps

GLSAfterNew == gs = New.gs /\ gl = New.gl /\ reqs = New.reqs /\ calls = New.calls

InitGLS == GLSAfterNew /\ NoScene

DoActiveTexture == \E t \in ActiveTextureArgs : CanCall /\ Become(ActiveTexture(Cur, t))

DoBlendEquation == \E m \in BlendEquationArgs : CanCall /\ Become(BlendEquation(Cur, m))

DoBlendEquationSeparate ==
    \E a \in BlendEquationSeparateArgs :
        CanCall /\ Become(BlendEquationSeparate(Cur, a[1], a[2]))

DoBlendFunc == \E a \in BlendFuncArgs : CanCall /\ Become(BlendFunc(Cur, a[1], a[2]))

DoBlendFuncSeparate ==
    \E a \in BlendFuncSeparateArgs :
        CanCall /\ Become(BlendFuncSeparate(Cur, a[1], a[2], a[3], a[4]))

DoDepthFunc == \E m \in DepthFuncArgs : CanCall /\ Become(DepthFunc(Cur, m))

DoDepthMask == \E f \in BOOLEAN : CanCall /\ Become(DepthMask(Cur, f))

DoEnable == \E c \in CapArgs : CanCall /\ Become(Enable(Cur, c))

DoDisable == \E c \in CapArgs : CanCall /\ Become(Disable(Cur, c))

DoFrontFace == \E m \in FrontFaceArgs : CanCall /\ Become(FrontFace(Cur, m))

DoLineWidth == \E w \in LineWidthArgs : CanCall /\ Become(LineWidth(Cur, w))

DoPolygonMode == \E a \in PolygonModeArgs : CanCall /\ Become(PolygonMode(Cur, a[1], a[2]))

DoPolygonOffset ==
    \E a \in PolygonOffsetArgs : CanCall /\ Become(PolygonOffset(Cur, a[1], a[2]))

DoViewport ==
    \E a \in ViewportArgs : CanCall /\ Become(Viewport(Cur, a[1], a[2], a[3], a[4]))

DoCullFace == \E m \in CullFaceArgs : CanCall /\ Become(CullFace(Cur, m))

DoSetCheckErrors == \E b \in BOOLEAN : CanCall /\ Become(SetCheckErrors(Cur, b))

DoClearColor == CanCall /\ Become(ClearColor(Cur, F32(0), F32(0), F32(0), F32(1)))

\* 17664 is DEPTH_BUFFER_BIT | STENCIL_BUFFER_BIT | COLOR_BUFFER_BIT.
DoClear == CanCall /\ Become(Clear(Cur, 17664))

DoScissor == CanCall /\ Become(Scissor(Cur, 0, 0, 1, 1))

DoCheckErrors == CanCall /\ Become(CheckErrors(Cur))

DoGetViewport == CanCall /\ Become(GetViewport(Cur))

\* 7938 is VERSION.
DoGetString == CanCall /\ Become(GetString(Cur, 7938, "version"))

NextGLS ==
    \/ DoActiveTexture
    \/ DoBlendEquation
    \/ DoBlendEquationSeparate
    \/ DoBlendFunc
    \/ DoBlendFuncSeparate
    \/ DoDepthFunc
    \/ DoDepthMask
    \/ DoEnable
    \/ DoDisable
    \/ DoFrontFace
    \/ DoLineWidth
    \/ DoPolygonMode
    \/ DoPolygonOffset
    \/ DoViewport
    \/ DoCullFace
    \/ DoSetCheckErrors
    \/ DoClearColor
    \/ DoClear
    \/ DoScissor
    \/ DoCheckErrors
    \/ DoGetViewport
    \/ DoGetString

SpecGLS == InitGLS /\ [][NextGLS]_vars

----------------------------------------------------------------------------
(* Programs, resources and uniforms.                                       *)

\* The Program objects the application holds (pointers; 0 is not one of
\* them) and the handle of each: program 1 was never built, so its handle
\* is zero.
ProgramHandle == <<0, 7, 9>>

Programs == DOMAIN ProgramHandle

\* A UseProgram that binds the program before it looks at its handle.
UseProgramBindsFirst(s, prog) ==
    IF ProgramHandle[prog] = 0
    THEN [s EXCEPT
            !.calls = Append(@, [fn |-> "UseProgram", args |-> <<ProgramHandle[prog]>>]),
            !.reqs = Append(@, Req("UseProgram", <<prog>>, <<prog>>, <<s.gs.prog>>, 1,
                                   FALSE, <<"gl", "panic">>))]
    ELSE [s EXCEPT
            !.gs.prog = prog,
            !.gs.programs = @ \cup {prog},
            !.calls = Append(@, [fn |-> "UseProgram", args |-> <<ProgramHandle[prog]>>]),
            !.reqs = Append(@, Req("UseProgram", <<prog>>, <<prog>>, <<s.gs.prog>>, 1,
                                   s.gs.prog # prog \/ prog \notin s.gs.programs,
                                   <<"gl", "store">>))]

\* A UseProgram that does not insert the program into the programs cache.
UseProgramNotInserted(s, prog) ==
    IF ProgramHandle[prog] = 0
    THEN [s EXCEPT
            !.reqs = Append(@, Req("UseProgram", <<prog>>, <<prog>>, <<s.gs.prog>>, 0,
                                   FALSE, <<"panic">>))]
    ELSE [s EXCEPT
            !.gs.prog = prog,
            !.calls = Append(@, [fn |-> "UseProgram", args |-> <<ProgramHandle[prog]>>]),
            !.reqs = Append(@, Req("UseProgram", <<prog>>, <<prog>>, <<s.gs.prog>>, 1,
                                   s.gs.prog # prog, <<"gl", "store">>))]

\* UseProgram: panic("Invalid program") when the handle is zero (the request
\* is logged with the step "panic"; the GLS is as it was for a caller that
\* recovers), otherwise the driver call, the current program and the
\* programs cache.
UseProgram(s, prog) ==
    IF ProgramHandle[prog] = 0
    THEN [s EXCEPT
            !.reqs = Append(@, Req("UseProgram", <<prog>>, <<prog>>, <<s.gs.prog>>, 0,
                                   FALSE, <<"panic">>))]
    ELSE [s EXCEPT
            !.gs.prog = prog,
            !.gs.programs = @ \cup {prog},
            !.calls = Append(@, [fn |-> "UseProgram", args |-> <<ProgramHandle[prog]>>]),
            !.reqs = Append(@, Req("UseProgram", <<prog>>, <<prog>>, <<s.gs.prog>>, 1,
                                   s.gs.prog # prog \/ prog \notin s.gs.programs,
                                   <<"gl", "store">>))]

\* Stats: a copy of the statistics, Shaders being the size of the programs
\* cache.
Stats(g) == [g.stats EXCEPT !.Shaders = Cardinality(g.programs)]

\* The id a create call of the driver returns: ids of one kind are handed
\* out in order, from 1.
NewId(s, fn) == 1 + Len(SelectSeq(s.calls, LAMBDA c : c.fn = fn))

\* A create operation: the driver call fn, whose result is returned (val),
\* and the GLS becoming g2.
Create(s, op, args, fn, g2) ==
    [s EXCEPT
        !.gs = g2,
        !.calls = Append(@, [fn |-> fn, args |-> args]),
        !.reqs = Append(@, Req(op, args, <<NewId(s, fn)>>, <<>>, 1, FALSE,
                               IF g2 = s.gs THEN <<"gl">> ELSE <<"gl", "count">>))]

\* A delete operation: one driver call fn per id of ids, and the GLS
\* becoming g2.
Delete(s, op, ids, fn, g2) ==
    [s EXCEPT
        !.gs = g2,
        !.calls = @ \o [i \in DOMAIN ids |-> [fn |-> fn, args |-> <<ids[i]>>]],
        !.reqs = Append(@, Req(op, ids, ids, <<>>, Len(ids), FALSE,
                               IF g2 = s.gs
                               THEN [i \in 1..Len(ids) |-> "gl"]
                               ELSE [i \in 1..(2 * Len(ids)) |->
                                        IF i % 2 = 1 THEN "gl" ELSE "count"]))]

CreateProgram(s) == Create(s, "CreateProgram", <<>>, "CreateProgram", s.gs)

CreateShader(s, stype) == Create(s, "CreateShader", <<stype>>, "CreateShader", s.gs)

DeleteBuffers(s, bufs) ==
    Delete(s, "DeleteBuffers", bufs, "DeleteBuffer",
           [s.gs EXCEPT !.stats.Buffers = @ - Len(bufs)])

DeleteShader(s, shader) == Delete(s, "DeleteShader", <<shader>>, "DeleteShader", s.gs)

DeleteProgram(s, program) == Delete(s, "DeleteProgram", <<program>>, "DeleteProgram", s.gs)

DeleteTextures(s, texs) ==
    Delete(s, "DeleteTextures", texs, "DeleteTexture",
           [s.gs EXCEPT !.stats.Textures = @ - Len(texs)])

DeleteVertexArrays(s, vaos) ==
    Delete(s, "DeleteVertexArrays", vaos, "DeleteVertexArray",
           [s.gs EXCEPT !.stats.Vaos = @ - Len(vaos)])

GenBuffer(s) ==
    Create(s, "GenBuffer", <<>>, "CreateBuffer", [s.gs EXCEPT !.stats.Buffers = @ + 1])

GenTexture(s) ==
    Create(s, "GenTexture", <<>>, "CreateTexture", [s.gs EXCEPT !.stats.Textures = @ + 1])

GenVertexArray(s) ==
    Create(s, "GenVertexArray", <<>>, "CreateVertexArray",
           [s.gs EXCEPT !.stats.Vaos = @ + 1])

\* The body of the two draw operations: the driver call, then
\* gs.stats.Drawcalls++.
Draw(s, op, args) ==
    [s EXCEPT
        !.gs.stats.Drawcalls = @ + 1,
        !.calls = Append(@, [fn |-> op, args |-> args]),
        !.reqs = Append(@, Req(op, args, args, <<>>, 1, FALSE, <<"gl", "count">>))]

DrawArrays(s, mode, first, count) == Draw(s, "DrawArrays", <<mode, first, count>>)

DrawElements(s, mode, count, itype, start) ==
    Draw(s, "DrawElements", <<mode, count, itype, start>>)

\* An operation that hands fargs, made from its arguments args, to the
\* driver call of its own name and does nothing else.
Forward(s, op, args, fargs) ==
    [s EXCEPT
        !.calls = Append(@, [fn |-> op, args |-> fargs]),
        !.reqs = Append(@, Req(op, args, fargs, <<>>, 1, FALSE, <<"gl">>))]

AttachShader(s, program, shader) ==
    Forward(s, "AttachShader", <<program, shader>>, <<program, shader>>)

BindBuffer(s, target, vbo) == Forward(s, "BindBuffer", <<target, vbo>>, <<target, vbo>>)

BindTexture(s, target, tex) == Forward(s, "BindTexture", <<target, tex>>, <<target, tex>>)

BindVertexArray(s, vao) == Forward(s, "BindVertexArray", <<vao>>, <<vao>>)

\* BufferData: the three cases of the type switch make the same driver call.
BufferData(s, target, size, data, usage) ==
    Forward(s, "BufferData", <<target, size, data, usage>>, <<target, data, size, usage>>)

CompileShader(s, shader) == Forward(s, "CompileShader", <<shader>>, <<shader>>)

EnableVertexAttribArray(s, index) ==
    Forward(s, "EnableVertexAttribArray", <<index>>, <<index>>)

GenerateMipmap(s, target) == Forward(s, "GenerateMipmap", <<target>>, <<target>>)

LinkProgram(s, program) == Forward(s, "LinkProgram", <<program>>, <<program>>)

ShaderSource(s, shader, src) == Forward(s, "ShaderSource", <<shader, src>>, <<shader, src>>)

\* TexImage2D: the driver call takes neither iformat nor border.
TexImage2D(s, target, level, iformat, width, height, border, format, itype, data) ==
    Forward(s, "TexImage2D",
            <<target, level, iformat, width, height, border, format, itype, data>>,
            <<target, level, width, height, format, itype, data>>)

\* TexParameteri: the driver call is given target where pname belongs.
TexParameteri(s, target, pname, param) ==
    Forward(s, "TexParameteri", <<target, pname, param>>, <<target, target, param>>)

VertexAttribPointer(s, index, size, xtype, normalized, stride, offset) ==
    Forward(s, "VertexAttribPointer", <<index, size, xtype, normalized, stride, offset>>,
            <<index, size, xtype, normalized, stride, offset>>)

\* A uniform-set operation that leaves out the driver call when the last
\* driver call was the same one.
UniformSetDeduplicated(s, op, args, fn, fargs) ==
    IF s.calls # <<>> /\ s.calls[Len(s.calls)].fn = fn /\ s.calls[Len(s.calls)].args = fargs
    THEN [s EXCEPT
            !.gs.stats.Unisets = @ + 1,
            !.reqs = Append(@, Req(op, args, fargs, <<>>, 0, FALSE, <<"count">>))]
    ELSE [s EXCEPT
            !.gs.stats.Unisets = @ + 1,
            !.calls = Append(@, [fn |-> fn, args |-> fargs]),
            !.reqs = Append(@, Req(op, args, fargs, <<>>, 1, FALSE, <<"gl", "count">>))]

\* The body of every uniform-set operation: the driver call fn(fargs), then
\* gs.stats.Unisets++.
UniformSet(s, op, args, fn, fargs) ==
    [s EXCEPT
        !.gs.stats.Unisets = @ + 1,
        !.calls = Append(@, [fn |-> fn, args |-> fargs]),
        !.reqs = Append(@, Req(op, args, fargs, <<>>, 1, FALSE, <<"gl", "count">>))]

Uniform1i(s, location, v0) ==
    UniformSet(s, "Uniform1i", <<location, v0>>, "Uniform1i", <<location, v0>>)

Uniform1f(s, location, v0) ==
    UniformSet(s, "Uniform1f", <<location, v0>>, "Uniform1f", <<location, v0>>)

Uniform2f(s, location, v0, v1) ==
    UniformSet(s, "Uniform2f", <<location, v0, v1>>, "Uniform2f", <<location, v0, v1>>)

Uniform3f(s, location, v0, v1, v2) ==
    UniformSet(s, "Uniform3f", <<location, v0, v1, v2>>,
               "Uniform3f", <<location, v0, v1, v2>>)

Uniform4f(s, location, v0, v1, v2, v3) ==
    UniformSet(s, "Uniform4f", <<location, v0, v1, v2, v3>>,
               "Uniform4f", <<location, v0, v1, v2, v3>>)

UniformMatrix3fv(s, location, count, transpose, pm) ==
    UniformSet(s, "UniformMatrix3fv", <<location, count, transpose, pm>>,
               "UniformMatrix3fvP", <<location, count, transpose, pm>>)

UniformMatrix4fv(s, location, count, transpose, pm) ==
    UniformSet(s, "UniformMatrix4fv", <<location, count, transpose, pm>>,
               "UniformMatrix4fvP", <<location, count, transpose, pm>>)

\* Uniform1fv and Uniform4fv pass the slice and not the count.
Uniform1fv(s, location, count, v) ==
    UniformSet(s, "Uniform1fv", <<location, count, v>>, "Uniform1fv", <<location, v>>)

Uniform2fv(s, location, count, v) ==
    UniformSet(s, "Uniform2fv", <<location, count, v>>, "Uniform2fvP", <<location, count, v>>)

Uniform2fvUP(s, location, count, v) ==
    UniformSet(s, "Uniform2fvUP", <<location, count, v>>,
               "Uniform2fvUP", <<location, count, v>>)

Uniform3fv(s, location, count, v) ==
    UniformSet(s, "Uniform3fv", <<location, count, v>>, "Uniform3fvP", <<location, count, v>>)

Uniform3fvUP(s, location, count, v) ==
    UniformSet(s, "Uniform3fvUP", <<location, count, v>>,
               "Uniform3fvUP", <<location, count, v>>)

Uniform4fv(s, location, count, v) ==
    UniformSet(s, "Uniform4fv", <<location, count, v>>, "Uniform4fv", <<location, v>>)

Uniform4fvUP(s, location, count, v) ==
    UniformSet(s, "Uniform4fvUP", <<location, count, v>>,
               "Uniform4fvUP", <<location, count, v>>)

\* Inputs.  35633 and 35632 are VERTEX_SHADER and FRAGMENT_SHADER; the ids
\* passed to the delete operations are ids the driver hands out and, for
\* the buffers, also none and two at once; a float slice or pointer is the
\* sequence of the floats it points to.
ShaderTypes == {35633, 35632}

DeleteBuffersArgs == {<<>>, <<1>>, <<1, 2>>}

DeleteIdsArgs == {<<1>>}

UniformInts == {0, 1}

Floats == <<F32(1), F32(1)>>

\* The cache as a state machine: New(), then up to MaxOps operations on
\* programs, resources and uniforms.
DoUseProgram == \E p \in Programs : CanCall /\ Become(UseProgram(Cur, p))

DoCreateProgram == CanCall /\ Become(CreateProgram(Cur))

DoCreateShader == \E t \in ShaderTypes : CanCall /\ Become(CreateShader(Cur, t))

DoDeleteBuffers == \E b \in DeleteBuffersArgs : CanCall /\ Become(DeleteBuffers(Cur, b))

DoDeleteShader == \E i \in {1} : CanCall /\ Become(DeleteShader(Cur, i))

DoDeleteProgram == \E i \in {1, 7} : CanCall /\ Become(DeleteProgram(Cur, i))

DoDeleteTextures == \E a \in DeleteIdsArgs : CanCall /\ Become(DeleteTextures(Cur, a))

DoDeleteVertexArrays == \E a \in DeleteIdsArgs : CanCall /\ Become(DeleteVertexArrays(Cur, a))

DoGenBuffer == CanCall /\ Become(GenBuffer(Cur))

DoGenTexture == CanCall /\ Become(GenTexture(Cur))

DoGenVertexArray == CanCall /\ Become(GenVertexArray(Cur))

DoUniform1i == \E v \in UniformInts : CanCall /\ Become(Uniform1i(Cur, 0, v))

DoUniform1f == CanCall /\ Become(Uniform1f(Cur, 0, F32(1)))

DoUniform2f == CanCall /\ Become(Uniform2f(Cur, 0, F32(1), F32(1)))

DoUniform3f == CanCall /\ Become(Uniform3f(Cur, 0, F32(1), F32(1), F32(1)))

DoUniform4f == CanCall /\ Become(Uniform4f(Cur, 0, F32(1), F32(1), F32(1), F32(1)))

DoUniformMatrix3fv == CanCall /\ Become(UniformMatrix3fv(Cur, 0, 1, FALSE, Floats))

DoUniformMatrix4fv == CanCall /\ Become(UniformMatrix4fv(Cur, 0, 1, FALSE, Floats))

DoUniform1fv == CanCall /\ Become(Uniform1fv(Cur, 0, 2, Floats))

DoUniform2fv == CanCall /\ Become(Uniform2fv(Cur, 0, 1, Floats))

DoUniform2fvUP == CanCall /\ Become(Uniform2fvUP(Cur, 0, 1, Floats))

DoUniform3fv == CanCall /\ Become(Uniform3fv(Cur, 0, 1, Floats))

DoUniform3fvUP == CanCall /\ Become(Uniform3fvUP(Cur, 0, 1, Floats))

DoUniform4fv == CanCall /\ Become(Uniform4fv(Cur, 0, 1, Floats))

DoUniform4fvUP == CanCall /\ Become(Uniform4fvUP(Cur, 0, 1, Floats))

GetAttribLocation(s, program, name, res) ==
    Query(s, "GetAttribLocation", <<program, name>>, "GetAttribLocation", res)

GetProgramiv(s, program, pname, res) ==
    Query(s, "GetProgramiv", <<program, pname>>, "GetProgrami", res)

GetProgramInfoLog(s, program, res) ==
    Query(s, "GetProgramInfoLog", <<program>>, "GetProgramInfoLog", res)

GetShaderInfoLog(s, shader, res) ==
    Query(s, "GetShaderInfoLog", <<shader>>, "GetShaderInfoLog", res)

GetUniformLocation(s, program, name, res) ==
    Query(s, "GetUniformLocation", <<program, name>>, "GetUniformLocation", res)

GetShaderiv(s, shader, pname, res) ==
    Query(s, "GetShaderiv", <<shader, pname>>, "GetShaderi", res)

\* gs.Stats(&st): the statistics copied out.
DoStats == CanCall /\ Become(Read(Cur, "Stats", <<Stats(gs)>>))

\* The queries of the driver, each with an answer of the driver.  35714 is
\* LINK_STATUS, 35713 COMPILE_STATUS; the location -1 is that of a name the
\* program does not have.
DoQuery ==
    /\ CanCall
    /\ \/ Become(GetAttribLocation(Cur, 7, "VertexPosition", 0))
       \/ Become(GetProgramiv(Cur, 7, 35714, 1))
       \/ Become(GetProgramInfoLog(Cur, 7, "log"))
       \/ Become(GetShaderInfoLog(Cur, 1, "log"))
       \/ Become(GetUniformLocation(Cur, 7, "MVP", -1))
       \/ Become(GetShaderiv(Cur, 1, 35713, 0))

\* 4 is TRIANGLES, 5125 UNSIGNED_INT.
DoDrawArrays == CanCall /\ Become(DrawArrays(Cur, 4, 0, 3))

DoDrawElements == CanCall /\ Become(DrawElements(Cur, 4, 3, 5125, 0))

\* The operations that only forward to the driver.  34962 is ARRAY_BUFFER,
\* 3553 TEXTURE_2D, 35044 STATIC_DRAW, 10241 TEXTURE_MIN_FILTER, 9729 LINEAR,
\* 6408 RGBA, 5121 UNSIGNED_BYTE, 5126 FLOAT.
DoForward ==
    /\ CanCall
    /\ \/ Become(AttachShader(Cur, 1, 1))
       \/ Become(BindBuffer(Cur, 34962, 1))
       \/ Become(BindTexture(Cur, 3553, 1))
       \/ Become(BindVertexArray(Cur, 1))
       \/ Become(BufferData(Cur, 34962, 12, "data", 35044))
       \/ Become(CompileShader(Cur, 1))
       \/ Become(EnableVertexAttribArray(Cur, 0))
       \/ Become(GenerateMipmap(Cur, 3553))
       \/ Become(LinkProgram(Cur, 1))
       \/ Become(ShaderSource(Cur, 1, "src"))
       \/ Become(TexImage2D(Cur, 3553, 0, 6408, 1, 1, 0, 6408, 5121, "data"))
       \/ Become(TexParameteri(Cur, 3553, 10241, 9729))
       \/ Become(VertexAttribPointer(Cur, 0, 3, 5126, FALSE, 0, 0))

NextRes ==
    \/ DoUseProgram
    \/ DoCreateProgram
    \/ DoCreateShader
    \/ DoDeleteBuffers
    \/ DoDeleteShader
    \/ DoDeleteProgram
    \/ DoDeleteTextures
    \/ DoDeleteVertexArrays
    \/ DoGenBuffer
    \/ DoGenTexture
    \/ DoGenVertexArray
    \/ DoUniform1i
    \/ DoUniform1f
    \/ DoUniform2f
    \/ DoUniform3f
    \/ DoUniform4f
    \/ DoUniformMatrix3fv
    \/ DoUniformMatrix4fv
    \/ DoUniform1fv
    \/ DoUniform2fv
    \/ DoUniform2fvUP
    \/ DoUniform3fv
    \/ DoUniform3fvUP
    \/ DoUniform4fv
    \/ DoUniform4fvUP
    \/ DoDrawArrays
    \/ DoDrawElements
    \/ DoForward
    \/ DoStats
    \/ DoQuery

SpecRes == InitGLS /\ [][NextRes]_vars

----------------------------------------------------------------------------
(* The scene graph the renderer walks.                                     *)
(*                                                                         *)
(* The nodes are 1..Len(Parent); node 1 is the root, Parent[n] the parent  *)
(* of n, and the children of a node are ordered by their number.  The      *)
(* depth-first order of this tree is 1, 2, 4, 3.                           *)

Parent == <<0, 1, 1, 2>>

Nodes == DOMAIN Parent

Root == CHOOSE n \in Nodes : Parent[n] = 0

\* node.Children(): the children of n, in order.
RECURSIVE ChildrenFrom(_, _)
ChildrenFrom(n, c) ==
    IF c > Len(Parent) THEN <<>>
    ELSE IF Parent[c] = n THEN <<c>> \o ChildrenFrom(n, c + 1)
    ELSE ChildrenFrom(n, c + 1)

Children(n) == ChildrenFrom(n, 1)

\* The ancestors of n, n itself excluded.
RECURSIVE Ancestors(_)
Ancestors(n) == IF Parent[n] = 0 THEN {} ELSE {Parent[n]} \cup Ancestors(Parent[n])

LightKinds == {"ambient", "directional", "point", "spot"}

\* The attributes of a node the renderer reads.  kind: what the node is
\* (a graphic.IGraphic, one of the four light.ILight types, or any other
\* core.INode).  Of a graphic: Renderable(), Cullable(), inFrustum (the
\* answer of frustum.IntersectsBox for its world bounding box),
\* RenderOrder(), z (the Z of its position in view space) and mats (the
\* Transparent() flag of each of its materials, in Materials() order).
\* Of another node: hides, the node its Render hook makes invisible (0 when
\* the hook leaves the scene alone).
NodeRec(kind, renderable, cullable, inFrustum, renderOrder, z, mats, hides) ==
    [kind |-> kind, renderable |-> renderable, cullable |-> cullable,
     inFrustum |-> inFrustum, renderOrder |-> renderOrder, z |-> z, mats |-> mats,
     hides |-> hides]

Other(hides) == NodeRec("other", FALSE, FALSE, FALSE, 0, 0, <<>>, hides)

Light(kind) == NodeRec(kind, FALSE, FALSE, FALSE, 0, 0, <<>>, 0)

Graphic(renderable, cullable, inFrustum, renderOrder, z, mats) ==
    NodeRec("graphic", renderable, cullable, inFrustum, renderOrder, z, mats, 0)

----------------------------------------------------------------------------
(* The Renderer object.                                                    *)

\* Stats{}: the zero value of the renderer statistics.
RStats0 == [Graphics |-> 0, Lights |-> 0, Panels |-> 0, Others |-> 0]

\* NewRenderer: r.scene = 0 is the nil scene.
NewRenderer ==
    [scene |-> 0, sortObjects |-> TRUE, rendered |-> FALSE,
     stats |-> RStats0, prevStats |-> RStats0,
     ambLights |-> <<>>, dirLights |-> <<>>, pointLights |-> <<>>, spotLights |-> <<>>,
     others |-> <<>>, rgraphics |-> <<>>, cgraphics |-> <<>>,
     grmatsOpaque |-> <<>>, grmatsTransp |-> <<>>,
     specs |-> [AmbientLightsMax |-> 0, DirLightsMax |-> 0, PointLightsMax |-> 0,
                SpotLightsMax |-> 0],
     frameBuffers |-> 2, frameCount |-> 0]

\* The no-error value of Go's error type.
NoErr == "nil"

\* The errors the shader manager's SetProgram may return.
Errors == {"errCompile", "errLink"}

\* One thing a Render call did: a render hook of node n run (ev = "hook"),
\* the frame buffer cleared ("clear"), the program of the material m of the
\* graphic n resolved with the light maxima x ("setProgram"), the setup of the
\* light n run with index m ("light"), the material m of the graphic n drawn
\* ("draw").  b is the bucket of a bucket entry and the kind of a light.
Event(ev, n, m, b, x) == [ev |-> ev, n |-> n, m |-> m, b |-> b, x |-> x]

\* A classification that tests the visibility of each node for itself but
\* walks the children of an invisible node all the same.
RECURSIVE classifyNodeNoPruning(_, _, _, _)
classifyNodeNoPruning(rr, nd, vis, n) ==
    LET r1 ==
            IF ~vis[n] THEN rr
            ELSE IF nd[n].kind = "graphic" THEN
                IF ~nd[n].renderable THEN rr
                ELSE IF nd[n].cullable /\ ~nd[n].inFrustum
                THEN [rr EXCEPT !.cgraphics = Append(@, n)]
                ELSE [rr EXCEPT !.rgraphics = Append(@, n)]
            ELSE IF nd[n].kind = "ambient" THEN [rr EXCEPT !.ambLights = Append(@, n)]
            ELSE IF nd[n].kind = "directional" THEN [rr EXCEPT !.dirLights = Append(@, n)]
            ELSE IF nd[n].kind = "point" THEN [rr EXCEPT !.pointLights = Append(@, n)]
            ELSE IF nd[n].kind = "spot" THEN [rr EXCEPT !.spotLights = Append(@, n)]
            ELSE [rr EXCEPT !.others = Append(@, n)]
        RECURSIVE walk(_, _)
        walk(acc, i) ==
            IF i > Len(Children(n)) THEN acc
            ELSE walk(classifyNodeNoPruning(acc, nd, vis, Children(n)[i]), i + 1)
    IN  walk(r1, 1)

\* classifyNode: classify node n and its children into the lists of rr,
\* under the visibility flags vis.
RECURSIVE classifyNode(_, _, _, _), classifyChildren(_, _, _, _, _)
classifyNode(rr, nd, vis, n) ==
    IF ~vis[n] THEN rr
    ELSE
        LET r1 ==
                IF nd[n].kind = "graphic" THEN
                    IF nd[n].renderable THEN
                        IF nd[n].cullable THEN
                            IF nd[n].inFrustum
                            THEN [rr EXCEPT !.rgraphics = Append(@, n)]
                            ELSE [rr EXCEPT !.cgraphics = Append(@, n)]
                        ELSE [rr EXCEPT !.rgraphics = Append(@, n)]
                    ELSE rr
                ELSE IF nd[n].kind = "ambient" THEN [rr EXCEPT !.ambLights = Append(@, n)]
                ELSE IF nd[n].kind = "directional" THEN [rr EXCEPT !.dirLights = Append(@, n)]
                ELSE IF nd[n].kind = "point" THEN [rr EXCEPT !.pointLights = Append(@, n)]
                ELSE IF nd[n].kind = "spot" THEN [rr EXCEPT !.spotLights = Append(@, n)]
                ELSE [rr EXCEPT !.others = Append(@, n)]
        IN  classifyChildren(r1, nd, vis, Children(n), 1)

classifyChildren(rr, nd, vis, ch, i) ==
    IF i > Len(ch) THEN rr
    ELSE classifyChildren(classifyNode(rr, nd, vis, ch[i]), nd, vis, ch, i + 1)

\* A bucketing that puts the first material of a graphic into its bucket
\* and every later one into the opaque list.
RECURSIVE bucketMaterialsFirstFlagOnly(_, _, _, _)
bucketMaterialsFirstFlagOnly(rr, nd, g, i) ==
    IF i > Len(nd[g].mats) THEN rr
    ELSE bucketMaterialsFirstFlagOnly(
            IF nd[g].mats[i] /\ i = 1
            THEN [rr EXCEPT !.grmatsTransp = Append(@, [g |-> g, m |-> i])]
            ELSE [rr EXCEPT !.grmatsOpaque = Append(@, [g |-> g, m |-> i])],
            nd, g, i + 1)

\* The bucket entries of the materials i.. of the graphic g, appended to the
\* opaque or to the transparent list.
RECURSIVE bucketMaterials(_, _, _, _)
bucketMaterials(rr, nd, g, i) ==
    IF i > Len(nd[g].mats) THEN rr
    ELSE bucketMaterials(
            IF nd[g].mats[i]
            THEN [rr EXCEPT !.grmatsTransp = Append(@, [g |-> g, m |-> i])]
            ELSE [rr EXCEPT !.grmatsOpaque = Append(@, [g |-> g, m |-> i])],
            nd, g, i + 1)

\* The loop over r.rgraphics that compiles the two lists of graphic materials.
RECURSIVE bucketGraphics(_, _, _)
bucketGraphics(rr, nd, i) ==
    IF i > Len(rr.rgraphics) THEN rr
    ELSE bucketGraphics(bucketMaterials(rr, nd, rr.rgraphics[i], 1), nd, i + 1)

\* A less function whose two depth orders are exchanged.
lessDepthExchanged(nd, e1, e2, backToFront) ==
    LET rO1 == nd[e1.g].renderOrder
        rO2 == nd[e2.g].renderOrder
    IN  IF rO1 # rO2 THEN rO1 < rO2
        ELSE IF backToFront THEN nd[e1.g].z > nd[e2.g].z
        ELSE nd[e1.g].z < nd[e2.g].z

\* A less function that orders both buckets back to front.
lessIgnoresDirection(nd, e1, e2, backToFront) ==
    LET rO1 == nd[e1.g].renderOrder
        rO2 == nd[e2.g].renderOrder
    IN  IF rO1 # rO2 THEN rO1 < rO2
        ELSE nd[e1.g].z < nd[e2.g].z

\* A less function that does not look at the render order.
lessRenderOrderIgnored(nd, e1, e2, backToFront) ==
    IF backToFront THEN nd[e1.g].z < nd[e2.g].z
    ELSE nd[e1.g].z > nd[e2.g].z

\* The less function of zSortGraphicMaterials.
less(nd, e1, e2, backToFront) ==
    LET rO1 == nd[e1.g].renderOrder
        rO2 == nd[e2.g].renderOrder
    IN  IF rO1 # rO2 THEN rO1 < rO2
        ELSE IF backToFront THEN nd[e1.g].z < nd[e2.g].z
        ELSE nd[e1.g].z > nd[e2.g].z

Swap(s, i, j) == [s EXCEPT ![i] = s[j], ![j] = s[i]]

\* sort.Slice on a slice shorter than 12: insertion sort.  The inner loop,
\* which moves the element at j down while it is less than the one before.
RECURSIVE sinkDown(_, _, _, _)
sinkDown(s, nd, j, backToFront) ==
    IF j > 1 /\ less(nd, s[j], s[j - 1], backToFront)
    THEN sinkDown(Swap(s, j, j - 1), nd, j - 1, backToFront)
    ELSE s

RECURSIVE insertionSort(_, _, _, _)
insertionSort(s, nd, i, backToFront) ==
    IF i > Len(s) THEN s
    ELSE insertionSort(sinkDown(s, nd, i, backToFront), nd, i + 1, backToFront)

zSortGraphicMaterials(grmats, nd, backToFront) == insertionSort(grmats, nd, 2, backToFront)

\* A loop over r.others that runs every render hook, visible or not.
RECURSIVE renderOthersUnconditional(_, _, _)
renderOthersUnconditional(f, nd, i) ==
    IF i > Len(f.r.others) THEN f
    ELSE renderOthersUnconditional(
            [f EXCEPT
                !.vis = [v \in Nodes |->
                            IF v = nd[f.r.others[i]].hides THEN FALSE ELSE f.vis[v]],
                !.events = Append(@, Event("hook", f.r.others[i], 0, "", <<>>)),
                !.r.stats.Others = @ + 1],
            nd, i + 1)

\* A frame in progress: the renderer, the visibility flags, the events so
\* far, the number of SetProgram calls so far and the error of the last one.
\* The loop that renders the other nodes, from r.others[i] on.
RECURSIVE renderOthers(_, _, _)
renderOthers(f, nd, i) ==
    IF i > Len(f.r.others) THEN f
    ELSE
        LET n == f.r.others[i]
        IN  IF ~f.vis[n] THEN renderOthers(f, nd, i + 1)
            ELSE renderOthers(
                    [f EXCEPT
                        !.vis = [v \in Nodes |-> IF v = nd[n].hides THEN FALSE ELSE f.vis[v]],
                        !.events = Append(@, Event("hook", n, 0, "", <<>>)),
                        !.r.stats.Others = @ + 1],
                    nd, i + 1)

\* The lights of one kind the classification collected.
lightsOf(f, kind) ==
    IF kind = "ambient" THEN f.r.ambLights
    ELSE IF kind = "directional" THEN f.r.dirLights
    ELSE IF kind = "point" THEN f.r.pointLights
    ELSE f.r.spotLights

\* A light setup that numbers the lights of a kind from 1.
RECURSIVE setupLightsIndexFromOne(_, _, _)
setupLightsIndexFromOne(f, kind, i) ==
    IF i > Len(lightsOf(f, kind)) THEN f
    ELSE setupLightsIndexFromOne(
            [f EXCEPT
                !.events = Append(@, Event("light", lightsOf(f, kind)[i], i, kind, <<>>)),
                !.r.stats.Lights = @ + 1],
            kind, i + 1)

\* The setup of the lights i.. of one kind for the current program.
RECURSIVE setupLights(_, _, _)
setupLights(f, kind, i) ==
    IF i > Len(lightsOf(f, kind)) THEN f
    ELSE setupLights(
            [f EXCEPT
                !.events = Append(@, Event("light", lightsOf(f, kind)[i], i - 1, kind, <<>>)),
                !.r.stats.Lights = @ + 1],
            kind, i + 1)

\* The SetProgram call for a bucket entry.  failAt is the number of the
\* SetProgram call of this frame that fails (0: none does) and e the error
\* it returns.
setProgram(f, grmat, bucket, failAt, e) ==
    [f EXCEPT
        !.events = Append(@, Event("setProgram", grmat.g, grmat.m, bucket,
                                   <<f.r.specs.AmbientLightsMax, f.r.specs.DirLightsMax,
                                     f.r.specs.PointLightsMax, f.r.specs.SpotLightsMax>>)),
        !.nset = @ + 1,
        !.err = IF f.nset + 1 = failAt THEN e ELSE NoErr]

\* The draw of a bucket entry: f with the entry's draw call appended.
drawGraphicMaterial(f, grmat, bucket) ==
    [f EXCEPT
        !.events = Append(@, Event("draw", grmat.g, grmat.m, bucket, <<>>)),
        !.r.stats.Graphics = @ + 1]

\* The light setups of a bucket entry, in the order ambient, directional,
\* point, spot, and then its draw.
setupAndDraw(f, grmat, bucket) ==
    drawGraphicMaterial(
        setupLights(setupLights(setupLights(setupLights(f, "ambient", 1),
                                            "directional", 1),
                                "point", 1),
                    "spot", 1),
        grmat, bucket)

\* renderGraphicMaterials: the entries grmats[i..] of a bucket.
\* programSet: what follows the SetProgram call of the entry i, which
\* left the frame f.
RECURSIVE renderGraphicMaterials(_, _, _, _, _, _), programSet(_, _, _, _, _, _)
renderGraphicMaterials(f, grmats, bucket, i, failAt, e) ==
    IF i > Len(grmats) THEN f
    ELSE programSet(setProgram(f, grmats[i], bucket, failAt, e),
                    grmats, bucket, i, failAt, e)

programSet(f, grmats, bucket, i, failAt, e) ==
    IF f.err # NoErr THEN f
    ELSE renderGraphicMaterials(setupAndDraw(f, grmats[i], bucket),
                                grmats, bucket, i + 1, failAt, e)

\* Buckets rendered in the other order: transparent, then opaque.
renderBucketsTransparentFirst(f, failAt, e) ==
    LET f1 == renderGraphicMaterials(f, f.r.grmatsTransp, "transp", 1, failAt, e)
    IN  IF f1.err # NoErr THEN f1
        ELSE renderGraphicMaterials(f1, f1.r.grmatsOpaque, "opaque", 1, failAt, e)

\* The transparent bucket rendered whatever the opaque bucket returned.
renderTransparentErrorIgnored(f, failAt, e) ==
    renderGraphicMaterials(f, f.r.grmatsTransp, "transp", 1, failAt, e)

\* The end of renderScene after the opaque bucket, which left the frame f:
\* its error returned, or the transparent bucket rendered.
renderTransparent(f, failAt, e) ==
    IF f.err # NoErr THEN f
    ELSE renderGraphicMaterials(f, f.r.grmatsTransp, "transp", 1, failAt, e)

\* The two calls of renderGraphicMaterials at the end of renderScene:
\* the opaque bucket, then, unless it failed, the transparent one.
renderBuckets(f, failAt, e) ==
    renderTransparent(
        renderGraphicMaterials(f, f.r.grmatsOpaque, "opaque", 1, failAt, e),
        failAt, e)

\* A start of frame that empties the lists of graphics and of other nodes
\* and keeps the lights of the frame before.
clearArraysKeepsLights(rr) ==
    [rr EXCEPT
        !.others = <<>>, !.rgraphics = <<>>,
        !.cgraphics = <<>>, !.grmatsOpaque = <<>>, !.grmatsTransp = <<>>]

\* The scene arrays cleared at the start of a frame.
clearArrays(rr) ==
    [rr EXCEPT
        !.ambLights = <<>>, !.dirLights = <<>>, !.pointLights = <<>>,
        !.spotLights = <<>>, !.others = <<>>, !.rgraphics = <<>>,
        !.cgraphics = <<>>, !.grmatsOpaque = <<>>, !.grmatsTransp = <<>>]

\* The lights count set in the shader specs.
setLightsMax(rr) ==
    [rr EXCEPT
        !.specs.AmbientLightsMax = Len(rr.ambLights),
        !.specs.DirLightsMax = Len(rr.dirLights),
        !.specs.PointLightsMax = Len(rr.pointLights),
        !.specs.SpotLightsMax = Len(rr.spotLights)]

\* The two buckets z-sorted whatever the sorting flag is.
sortBucketsAlways(rr, nd) ==
    [rr EXCEPT
        !.grmatsOpaque = zSortGraphicMaterials(@, nd, FALSE),
        !.grmatsTransp = zSortGraphicMaterials(@, nd, TRUE)]

\* The two buckets z-sorted when sorting is enabled.
sortBuckets(rr, nd) ==
    IF rr.sortObjects
    THEN [rr EXCEPT
            !.grmatsOpaque = zSortGraphicMaterials(@, nd, FALSE),
            !.grmatsTransp = zSortGraphicMaterials(@, nd, TRUE)]
    ELSE rr

\* The screen cleared if there is something to render or something was
\* rendered by the frame before.
clearScreen(f) ==
    IF \/ Len(f.r.grmatsOpaque) > 0
       \/ Len(f.r.grmatsTransp) > 0
       \/ f.r.prevStats.Graphics > 0
    THEN [f EXCEPT
            !.events = Append(@, Event("clear", 0, 0, "", <<>>)),
            !.r.rendered = TRUE]
    ELSE f

\* iscene.GetNode(): the scene root as the renderer sees it.  It is the
\* embedded core.Node of the root, whatever type the root is: neither a
\* graphic nor a light, and with the Render method of core.Node, which does
\* nothing.  The children are seen as what they are.
GetNode(nd, scene) ==
    [n \in DOMAIN nd |-> IF n = scene THEN Other(0) ELSE nd[n]]

\* A renderScene that clears the screen before it renders the other nodes.
renderSceneClearsFirst(f, nd, failAt, e) ==
    LET r0 == clearArrays(f.r)
        r1 == classifyNode(r0, GetNode(nd, f.r.scene), f.vis, f.r.scene)
        r2 == setLightsMax(r1)
        r3 == bucketGraphics(r2, nd, 1)
        r4 == sortBuckets(r3, nd)
        f1 == clearScreen([f EXCEPT !.r = r4])
        f2 == renderOthers(f1, GetNode(nd, f.r.scene), 1)
    IN  renderBuckets(f2, failAt, e)

\* renderScene: one frame of the scene nd under the visibility flags of f.
renderScene(f, nd, failAt, e) ==
    LET r0 == clearArrays(f.r)
        \* classify all scene nodes, from the core.Node of the root
        r1 == classifyNode(r0, GetNode(nd, f.r.scene), f.vis, f.r.scene)
        r2 == setLightsMax(r1)
        \* compile the lists of opaque and transparent graphic materials
        r3 == bucketGraphics(r2, nd, 1)
        r4 == sortBuckets(r3, nd)
        \* render the other nodes
        f1 == renderOthers([f EXCEPT !.r = r4], GetNode(nd, f.r.scene), 1)
        f2 == clearScreen(f1)
    IN  renderBuckets(f2, failAt, e)

\* The end of Render: the statistics of the frame kept for the next one,
\* unless renderScene returned an error.
keepStats(f) ==
    IF f.err # NoErr THEN f
    ELSE [f EXCEPT !.r.prevStats = f.r.stats]

\* A frame start that keeps the statistics of the frame before.
frameStartKeepsStats(rr, vis) ==
    [r |-> [rr EXCEPT !.rendered = FALSE],
     vis |-> vis, events |-> <<>>, nset |-> 0, err |-> NoErr]

\* A frame start that keeps the rendered flag of the frame before.
frameStartKeepsRendered(rr, vis) ==
    [r |-> [rr EXCEPT !.stats = RStats0],
     vis |-> vis, events |-> <<>>, nset |-> 0, err |-> NoErr]

\* The frame a Render call starts from.
frameStart(rr, vis) ==
    [r |-> [rr EXCEPT !.rendered = FALSE, !.stats = RStats0],
     vis |-> vis, events |-> <<>>, nset |-> 0, err |-> NoErr]

\* Render: the frame a Render call on the renderer rr produces.
Render(rr, nd, vis, failAt, e) ==
    keepStats(IF rr.scene # 0
              THEN renderScene(frameStart(rr, vis), nd, failAt, e)
              ELSE frameStart(rr, vis))

----------------------------------------------------------------------------
(* The renderer as a state machine.                                        *)

\* Bound: number of Render calls of a behaviour of SpecRender.
MaxFrames == 2

\* What is recorded of the last Render call: whether it had a scene to render
\* (ran), its events, the values it returned (did, err), the visibility flags
\* it started from, the SetProgram call that was made to fail and the error
\* injected there (failAt, inj), and the number of draws the Render call
\* before it submitted and the error that call returned.
Out0 ==
    [called |-> FALSE, ran |-> FALSE, events |-> <<>>, did |-> FALSE, err |-> NoErr,
     vis |-> [n \in Nodes |-> TRUE], failAt |-> 0, inj |-> NoErr, prevDraws |-> 0,
     prevErr |-> NoErr]

Draws(events) == Len(SelectSeq(events, LAMBDA ev : ev.ev = "draw"))

\* r.SetScene(scene): the root of the scene graph, or nil.
SetScene(s) ==
    /\ r' = [r EXCEPT !.scene = s]
    /\ UNCHANGED <<glsVars, node, visible, out, frames>>

\* r.SetObjectSorting(sort)
SetObjectSorting(b) ==
    /\ r' = [r EXCEPT !.sortObjects = b]
    /\ UNCHANGED <<glsVars, node, visible, out, frames>>

\* node.SetVisible(b), called by the application between two frames.
SetVisible(n, b) ==
    /\ visible' = [visible EXCEPT ![n] = b]
    /\ UNCHANGED <<glsVars, node, r, out, frames>>

\* r.Render(icam), the failAt-th SetProgram call of the frame returning e.
DoRender(failAt, e) ==
    \E f \in {Render(r, node, visible, failAt, e)} :
        /\ r' = f.r
        /\ visible' = f.vis
        /\ out' = [called |-> TRUE, ran |-> r.scene # 0, events |-> f.events,
                   did |-> f.r.rendered, err |-> f.err, vis |-> visible,
                   failAt |-> failAt, inj |-> e,
                   prevDraws |-> Draws(out.events), prevErr |-> out.err]
        /\ frames' = frames + 1
        \* r.gs.Clear(DEPTH_BUFFER_BIT | STENCIL_BUFFER_BIT | COLOR_BUFFER_BIT),
        \* the call of the clear decision
        /\ \E s \in {IF f.r.rendered THEN Clear(Cur, 17664) ELSE Cur} :
              gs' = s.gs /\ gl' = s.gl /\ reqs' = s.reqs /\ calls' = s.calls
        /\ UNCHANGED node

\* The Render calls possible in the current state: without a failure, or
\* with one of the SetProgram calls the frame makes failing.
RenderCall ==
    \/ DoRender(0, NoErr)
    \/ \E k \in 1..Render(r, node, visible, 0, NoErr).nset : \E e \in Errors : DoRender(k, e)

\* The scenes of SpecFrame.  Kinds: the nodes 2, 3 and 4 are, each, any of
\* nine kinds of node under a root that is a plain node, with any
\* visibility flags.
KindProfiles ==
    {Other(0), Light("ambient"), Light("directional"), Light("point"), Light("spot"),
     Graphic(FALSE, TRUE, TRUE, 0, -5, <<FALSE>>),
     Graphic(TRUE, TRUE, FALSE, 0, -5, <<FALSE>>),
     Graphic(TRUE, TRUE, TRUE, 0, -5, <<FALSE>>),
     Graphic(TRUE, FALSE, FALSE, 0, -1, <<TRUE>>)}

KindScenes == {nd \in [Nodes -> KindProfiles \cup {Other(0)}] : nd[Root] = Other(0)}

\* The scenes of SpecFrame.  Sorting: the nodes 2, 3 and 4 are graphics that
\* are all drawn, with any render order, view-space Z and materials.
SortProfiles ==
    {Graphic(TRUE, FALSE, TRUE, ro, z, mats) :
        ro \in {0, 1}, z \in {-10, -5, -1},
        mats \in {<<FALSE>>, <<TRUE>>, <<FALSE, TRUE>>}}

SortScenes == {nd \in [Nodes -> SortProfiles \cup {Other(0)}] : nd[Root] = Other(0)}

\* The scenes of SpecFrame.  Hooks: every node is a plain node whose render
\* hook hides one of the nodes, itself included, or none.
HookScenes == [Nodes -> {Other(h) : h \in {0} \cup Nodes}]

\* The scenes of SpecFrame.  Lights: a graphic with an opaque and a
\* transparent material and two lights of any kinds.
LightScenes ==
    {nd \in [Nodes -> KindProfiles \cup SortProfiles] :
        /\ nd[1] = Other(0)
        /\ nd[2] = Graphic(TRUE, FALSE, TRUE, 0, -5, <<FALSE, TRUE>>)
        /\ nd[3].kind \in LightKinds /\ nd[4].kind \in LightKinds}

\* The scenes of SpecFrame.  Roots: the root is a node of any kind, above an
\* opaque graphic, a point light and a plain node.
RootScenes ==
    {nd \in [Nodes -> KindProfiles \cup SortProfiles] :
        /\ nd[2] = Graphic(TRUE, FALSE, TRUE, 0, -5, <<FALSE>>)
        /\ nd[3] = Light("point")
        /\ nd[4] = Other(0)}

RendererReady == r = [NewRenderer EXCEPT !.scene = Root] /\ out = Out0 /\ frames = 0

InitFrame ==
    /\ GLSAfterNew
    /\ \/ node \in KindScenes /\ visible \in [Nodes -> BOOLEAN]
       \/ node \in SortScenes /\ visible = [n \in Nodes |-> TRUE]
       \/ node \in HookScenes /\ visible = [n \in Nodes |-> TRUE]
       \/ node \in LightScenes /\ visible = [n \in Nodes |-> TRUE]
       \/ node \in RootScenes /\ visible = [n \in Nodes |-> TRUE]
    /\ RendererReady

\* SpecFrame: the first frame of every scene, sorted or not.
SortingChosen == frames = 0 /\ \E b \in BOOLEAN : SetObjectSorting(b)

FirstFrame == frames = 0 /\ RenderCall

NextFrame == SortingChosen \/ FirstFrame

SpecFrame == InitFrame /\ [][NextFrame]_vars

\* The scenes of SpecRender: a few scenes, rendered frame after frame while
\* the application shows and hides nodes and sets the scene.
DynScenes ==
    {nd \in [Nodes -> KindProfiles \cup SortProfiles] :
        /\ nd[1] = Other(0)
        /\ nd[2] \in {Graphic(TRUE, FALSE, TRUE, 0, -5, <<FALSE>>),
                      Graphic(TRUE, FALSE, TRUE, 0, -5, <<FALSE, TRUE>>)}
        /\ nd[3] \in {Light("ambient"), Graphic(TRUE, TRUE, FALSE, 0, -5, <<FALSE>>)}
        /\ nd[4] = Graphic(TRUE, FALSE, TRUE, 0, -1, <<TRUE>>)}

InitRender ==
    /\ GLSAfterNew
    /\ node \in DynScenes
    /\ visible = [n \in Nodes |-> TRUE]
    /\ r = NewRenderer /\ out = Out0 /\ frames = 0

SceneSet == \E s \in {0, Root} : SetScene(s)

SortingSet == \E b \in BOOLEAN : SetObjectSorting(b)

VisibleSet == \E n \in Nodes : \E b \in BOOLEAN : SetVisible(n, b)

Frame == frames < MaxFrames /\ RenderCall

NextRender == SceneSet \/ SortingSet \/ VisibleSet \/ Frame

SpecRender == InitRender /\ [][NextRender]_vars

----------------------------------------------------------------------------
(* Properties of the state cache (checked under SpecGLS).                  *)

\* The state setters of the cache named by the idempotence contract.
SetterOps ==
    {"Enable", "Disable", "BlendEquation", "BlendEquationSeparate", "BlendFunc",
     "BlendFuncSeparate", "DepthFunc", "DepthMask", "FrontFace", "ActiveTexture",
     "LineWidth", "PolygonMode", "PolygonOffset", "Viewport"}

\* Requests i and i+1 are the same setter called with the same value.
SameCallTwice(i) ==
    /\ i \in 1..(Len(reqs) - 1)
    /\ reqs[i].op \in SetterOps
    /\ reqs[i + 1].op = reqs[i].op
    /\ reqs[i + 1].args = reqs[i].args

\* What the contract asks of S(v); S(v): one driver call for the pair when v
\* was not the cached value, none for the second call, which changes nothing.
TwiceIsOnce(i) ==
    /\ reqs[i].val # reqs[i].was => reqs[i].ncalls + reqs[i + 1].ncalls = 1
    /\ reqs[i + 1].ncalls = 0
    /\ ~reqs[i + 1].changed

\* C1 (as stated): for every state setter S, Viewport included, and every
\* value v, a NaN included, S(v) twice in a row issues exactly one driver call when v was not
\* cached, and the second call issues none and leaves the cached state alone.
C1_TwiceIsOnceEverySetter == \A i \in 1..(Len(reqs) - 1) : SameCallTwice(i) => TwiceIsOnce(i)

\* Request i is the first call that ever addresses its piece of state: no
\* earlier request is the same setter (for Enable/Disable: no earlier
\* Enable or Disable of the same capability).
FirstOfItsSlot(i) ==
    \A j \in 1..(i - 1) :
        IF reqs[i].op \in {"Enable", "Disable"}
        THEN ~(reqs[j].op \in {"Enable", "Disable"} /\ reqs[j].args = reqs[i].args)
        ELSE reqs[j].op # reqs[i].op

\* C2 (as stated): the first setter call made after New(), on a piece of
\* state never set before, issues the driver call exactly once whatever the
\* value passed.
C2_FirstCallNeverElided ==
    (/\ Len(reqs) = NewReqs + 1
     /\ reqs[NewReqs + 1].op \in SetterOps
     /\ FirstOfItsSlot(NewReqs + 1))
        => reqs[NewReqs + 1].ncalls = 1

\* C3 (as stated): every cached value a setter has written (one that differs
\* from the value reset() leaves in the slot) is the value the driver holds.
C3_CacheEqualsDriver ==
    /\ gs.activeTexture # uintUndef => gl.activeTexture = <<gs.activeTexture>>
    /\ gs.blendEquation # uintUndef
          => gl.blendEquation = <<gs.blendEquation, gs.blendEquation>>
    /\ <<gs.blendEquationRGB, gs.blendEquationAlpha>> # <<0, 0>>
          => gl.blendEquation = <<gs.blendEquationRGB, gs.blendEquationAlpha>>
    /\ <<gs.blendSrc, gs.blendDst>> # <<uintUndef, uintUndef>>
          => gl.blendFunc = <<gs.blendSrc, gs.blendDst, gs.blendSrc, gs.blendDst>>
    /\ <<gs.blendSrcRGB, gs.blendDstRGB, gs.blendSrcAlpha, gs.blendDstAlpha>>
            # <<uintUndef, uintUndef, uintUndef, uintUndef>>
          => gl.blendFunc =
                <<gs.blendSrcRGB, gs.blendDstRGB, gs.blendSrcAlpha, gs.blendDstAlpha>>
    /\ gs.depthFunc # 0 => gl.depthFunc = <<gs.depthFunc>>
    /\ gs.depthMask # uintUndef => gl.depthMask = <<gs.depthMask = intTrue>>
    /\ gs.frontFace # 0 => gl.frontFace = <<gs.frontFace>>
    /\ \A c \in CapIds :
          gs.capabilities[c] # capUndef
              => gl.caps[c] = <<gs.capabilities[c] = capEnabled>>
    /\ gs.lineWidth # F32(0) => gl.lineWidth = <<gs.lineWidth>>
    /\ <<gs.polygonModeFace, gs.polygonModeMode>> # <<0, 0>>
          => gl.polygonMode = <<gs.polygonModeFace, gs.polygonModeMode>>
    /\ <<gs.polygonOffsetFactor, gs.polygonOffsetUnits>> # <<F32(-1), F32(-1)>>
          => gl.polygonOffset = <<gs.polygonOffsetFactor, gs.polygonOffsetUnits>>
    /\ <<gs.viewportX, gs.viewportY, gs.viewportWidth, gs.viewportHeight>> # <<0, 0, 0, 0>>
          => gl.viewport = <<gs.viewportX, gs.viewportY, gs.viewportWidth, gs.viewportHeight>>

\* The driver calls the requests reqs[1..n] account for, in request order.
RECURSIVE IssuedBy(_)
IssuedBy(n) ==
    IF n = 0 THEN <<>>
    ELSE IF reqs[n].ncalls = 0 THEN IssuedBy(n - 1)
    ELSE Append(IssuedBy(n - 1), [fn |-> reqs[n].op, args |-> reqs[n].args])

\* C4: the driver calls issued are exactly the requests that were not
\* elided, each once and in request order, and a setter that is not elided
\* calls the driver before it updates the cache.
C4_CallsInRequestOrder ==
    /\ calls = IssuedBy(Len(reqs))
    /\ \A i \in 1..Len(reqs) :
          /\ reqs[i].ncalls \in {0, 1}
          /\ reqs[i].op \in SetterOps =>
                reqs[i].steps = IF reqs[i].ncalls = 0 THEN <<>> ELSE <<"gl", "store">>

\* C4 witness: an elided request followed by one that reached the driver.
C4_Witness ==
    \E i \in (NewReqs + 1)..(Len(reqs) - 1) :
        /\ reqs[i].ncalls = 0
        /\ reqs[i + 1].ncalls = 1
        /\ calls[Len(calls)].fn = reqs[i + 1].op

----------------------------------------------------------------------------
(* Properties of programs, resources and uniforms (checked under SpecRes). *)

\* The request the step just made, when the step made one.
Requested == Len(reqs') = Len(reqs) + 1

LastReq == reqs[Len(reqs)]

\* C11: a UseProgram call with a program whose handle is zero panics and
\* does nothing else: the step issues no driver call and leaves the driver,
\* the current program, the programs cache and all the rest of the GLS as
\* they were.
C11_ZeroHandlePanics ==
    [][(/\ Requested
        /\ reqs'[Len(reqs')].op = "UseProgram"
        /\ ProgramHandle[reqs'[Len(reqs')].args[1]] = 0)
          => /\ reqs'[Len(reqs')].steps = <<"panic">>
             /\ calls' = calls
             /\ gl' = gl
             /\ gs' = gs]_vars

\* C11 witness: UseProgram of the program with the zero handle has panicked
\* while another program was the current one, and the last driver call is
\* still the bind of that program.
C11_Witness ==
    /\ LastReq.op = "UseProgram" /\ LastReq.steps = <<"panic">>
    /\ gs.prog # 0 /\ gs.programs # {}
    /\ calls[Len(calls)] = [fn |-> "UseProgram", args |-> <<ProgramHandle[gs.prog]>>]

\* Number of requests of the operation op made so far.
Requests(op) == Len(SelectSeq(reqs, LAMBDA q : q.op = op))

\* Number of ids passed so far to the delete operation op.
RECURSIVE IdsPassed(_, _)
IdsPassed(op, i) ==
    IF i = 0 THEN 0
    ELSE IdsPassed(op, i - 1) + (IF reqs[i].op = op THEN Len(reqs[i].args) ELSE 0)

\* C13 (as stated): every create and delete operation issues one driver
\* call per id, and each live count of a Stats snapshot is the number of
\* creations minus the number of ids deleted of its kind: Buffers, Textures,
\* Vaos, and Shaders for the programs.
C13_LiveCountsFollowLifecycle ==
    /\ \A i \in DOMAIN reqs :
          /\ reqs[i].op \in {"GenBuffer", "GenTexture", "GenVertexArray", "CreateProgram",
                             "CreateShader"} => reqs[i].ncalls = 1
          /\ reqs[i].op \in {"DeleteBuffers", "DeleteTextures", "DeleteVertexArrays",
                             "DeleteProgram", "DeleteShader"}
                => reqs[i].ncalls = Len(reqs[i].args)
    /\ Stats(gs).Buffers = Requests("GenBuffer") - IdsPassed("DeleteBuffers", Len(reqs))
    /\ Stats(gs).Textures = Requests("GenTexture") - IdsPassed("DeleteTextures", Len(reqs))
    /\ Stats(gs).Vaos = Requests("GenVertexArray") - IdsPassed("DeleteVertexArrays", Len(reqs))
    /\ Stats(gs).Shaders = Requests("CreateProgram") - IdsPassed("DeleteProgram", Len(reqs))

\* The uniform-set operations.
UniformOps ==
    {"Uniform1i", "Uniform1f", "Uniform2f", "Uniform3f", "Uniform4f",
     "UniformMatrix3fv", "UniformMatrix4fv", "Uniform1fv", "Uniform2fv", "Uniform2fvUP",
     "Uniform3fv", "Uniform3fvUP", "Uniform4fv", "Uniform4fvUP"}

\* C14: every uniform-set operation issues one driver call, for the
\* location it was given, whatever the calls before it were, adds one to
\* Unisets and changes nothing else of the GLS.
C14_UniformAlwaysPassed ==
    [][(Requested /\ reqs'[Len(reqs')].op \in UniformOps)
          => /\ Len(calls') = Len(calls) + 1
             /\ SubSeq(calls', 1, Len(calls)) = calls
             /\ calls'[Len(calls')].args[1] = reqs'[Len(reqs')].args[1]
             /\ gs' = [gs EXCEPT !.stats.Unisets = @ + 1]
             /\ gl' = gl]_vars

\* C14 witness: the same uniform-set operation was called twice in a row
\* with the same location and value, and the driver got both calls.
C14_Witness ==
    /\ Len(reqs) >= NewReqs + 2
    /\ LastReq.op \in UniformOps
    /\ reqs[Len(reqs) - 1].op = LastReq.op
    /\ reqs[Len(reqs) - 1].args = LastReq.args
    /\ Len(calls) >= 2
    /\ calls[Len(calls)].fn = calls[Len(calls) - 1].fn
    /\ calls[Len(calls)].args = calls[Len(calls) - 1].args
    /\ gs.stats.Unisets = 2

\* The requests that bound a program: UseProgram with a non-zero handle.
Binds == SelectSeq(reqs, LAMBDA q : q.op = "UseProgram" /\ ProgramHandle[q.args[1]] # 0)

\* C15: the current program is the one the last successful UseProgram
\* bound (none before the first), every program bound so far is in the
\* programs cache, and the Shaders value of a Stats snapshot is the number
\* of distinct programs bound so far.
C15_BoundProgramsKnown ==
    \A b \in {Binds} :
        /\ gs.prog = IF b = <<>> THEN 0 ELSE b[Len(b)].args[1]
        /\ \A i \in DOMAIN b : b[i].args[1] \in gs.programs
        /\ Stats(gs).Shaders = Cardinality({b[i].args[1] : i \in DOMAIN b})

\* C15 witness: three successful UseProgram calls, two of them of the same
\* program, and a Stats snapshot with Shaders = 2.
C15_Witness ==
    /\ Len(Binds) = 3
    /\ Binds[1].args[1] = Binds[2].args[1]
    /\ Binds[3].args[1] # Binds[1].args[1]
    /\ gs.prog = Binds[3].args[1]
    /\ Stats(gs).Shaders = 2

----------------------------------------------------------------------------
(* Properties of the rendering pipeline.                                   *)

\* The nodes as a Render call on the scene sees them.
Seen == GetNode(node, Root)

\* n is visible and so is every ancestor of n, under the flags vis.
EffVisible(n, vis) == vis[n] /\ \A a \in Ancestors(n) : vis[a]

\* The seven lists of the classification, one after the other.
Classified ==
    r.rgraphics \o r.cgraphics \o r.ambLights \o r.dirLights \o r.pointLights
        \o r.spotLights \o r.others

\* Number of times n appears in the lists of the classification.
TimesClassified(n) == Len(SelectSeq(Classified, LAMBDA x : x = n))

\* The last Render call classified the scene the state holds.
Classification == out.called /\ out.ran

\* C5 (as stated): after the classification of a Render call, every node
\* that was visible with all its ancestors is in exactly one of the seven
\* lists, once.
C5_EveryVisibleNodeClassifiedOnce ==
    Classification =>
        \A n \in Nodes : EffVisible(n, out.vis) => TimesClassified(n) = 1

\* The nodes the events of the last Render call mention.
EventNodes == {out.events[i].n : i \in DOMAIN out.events}

\* The graphics that have an entry in a bucket.
BucketNodes ==
    {r.grmatsOpaque[i].g : i \in DOMAIN r.grmatsOpaque}
        \cup {r.grmatsTransp[i].g : i \in DOMAIN r.grmatsTransp}

\* C6: a node that was invisible, or below an invisible node, when the
\* Render call classified the scene is in none of the lists, has no bucket
\* entry, and no light setup, draw or render hook of the frame is its own.
C6_InvisibleSubtreeSkipped ==
    Classification =>
        \A n \in Nodes :
            ~EffVisible(n, out.vis) =>
                /\ TimesClassified(n) = 0
                /\ n \notin BucketNodes
                /\ n \notin EventNodes

\* C6 witness: a node with its own flag set, below an invisible parent,
\* skipped by a frame that drew some other graphic.
C6_Witness ==
    /\ Classification
    /\ \E n \in Nodes :
          /\ out.vis[n] /\ ~EffVisible(n, out.vis)
          /\ Seen[n].kind \in {"graphic"} \cup LightKinds
          /\ Seen[n].kind = "graphic" => Seen[n].renderable
    /\ \E i \in DOMAIN out.events : out.events[i].ev = "draw"

\* The draws of the last Render call, in submission order.
DrawEvents == SelectSeq(out.events, LAMBDA ev : ev.ev = "draw")

\* The material drawn by the draw event ev is transparent.
IsTransparent(ev) == node[ev.n].mats[ev.m]

\* C7: no transparent material is drawn before an opaque one, whatever the
\* render orders, the depths and the sorting flag.
C7_OpaqueBeforeTransparent ==
    out.called =>
        \A i, j \in DOMAIN DrawEvents :
            (~IsTransparent(DrawEvents[i]) /\ IsTransparent(DrawEvents[j])) => i < j

\* C7 witness: with sorting on, a transparent material was drawn after an
\* opaque one of a graphic with a larger render order and a nearer depth.
C7_Witness ==
    /\ out.called /\ r.sortObjects
    /\ \E i, j \in DOMAIN DrawEvents :
          /\ ~IsTransparent(DrawEvents[i]) /\ IsTransparent(DrawEvents[j])
          /\ node[DrawEvents[i].n].renderOrder > node[DrawEvents[j].n].renderOrder
          /\ node[DrawEvents[i].n].z > node[DrawEvents[j].n].z

\* The last Render call issued a frame-buffer clear.
Cleared == \E i \in DOMAIN out.events : out.events[i].ev = "clear"

\* C8 (as stated): a Render call on a scene whose frame has no bucket entry
\* clears and returns true when the Render call before it drew a graphic,
\* and neither clears nor returns true when that call drew none.
C8_ClearFollowsPreviousFrame ==
    (/\ frames >= 2 /\ out.called /\ out.ran
     /\ r.grmatsOpaque = <<>> /\ r.grmatsTransp = <<>>)
        => IF out.prevDraws >= 1
           THEN Cleared /\ out.did
           ELSE ~Cleared /\ ~out.did

\* C9: with sorting on, of two materials of one bucket whose graphics have
\* the same render order, the one drawn first has the smaller or the same
\* view-space Z in the transparent bucket (farthest first), and the larger
\* or the same Z in the opaque bucket (nearest first).
C9_DepthOrder ==
    (out.called /\ r.sortObjects) =>
        \A i, j \in DOMAIN DrawEvents :
            (/\ i < j
             /\ IsTransparent(DrawEvents[i]) = IsTransparent(DrawEvents[j])
             /\ node[DrawEvents[i].n].renderOrder = node[DrawEvents[j].n].renderOrder)
                => IF IsTransparent(DrawEvents[i])
                   THEN node[DrawEvents[i].n].z <= node[DrawEvents[j].n].z
                   ELSE node[DrawEvents[i].n].z >= node[DrawEvents[j].n].z

\* The Z of the graphics of the bucket entries s, in order.
Depths(s) == [i \in DOMAIN s |-> node[s[i].n].z]

\* C9 witness: the graphics met in the order Z = -5, -1, -10 (the nodes 2, 4
\* and 3), each with an opaque and a transparent material and all with the
\* same render order, were drawn nearest first in the opaque bucket and
\* farthest first in the transparent one.
C9_Witness ==
    /\ out.called /\ r.sortObjects
    /\ <<node[2].z, node[4].z, node[3].z>> = <<-5, -1, -10>>
    /\ r.rgraphics = <<2, 4, 3>>
    /\ Depths(SelectSeq(DrawEvents, LAMBDA ev : ~IsTransparent(ev))) = <<-1, -5, -10>>
    /\ Depths(SelectSeq(DrawEvents, LAMBDA ev : IsTransparent(ev))) = <<-10, -5, -1>>

\* The bucket entries of the frame in rendering order.
Entries == r.grmatsOpaque \o r.grmatsTransp

\* C10: when a SetProgram call of a Render call fails (the call number
\* out.failAt, with the error out.inj), it is the last thing the Render call
\* does: the entries before it, and only they, have been drawn, in order; no
\* light setup and no draw follows; nothing of the transparent bucket is
\* touched when the failing entry is an opaque one; and Render returns the
\* error SetProgram returned.
C10_StopsAtShaderError ==
    (out.called /\ out.failAt # 0) =>
        LET k == out.failAt
            last == out.events[Len(out.events)]
        IN  /\ out.err = out.inj
            /\ last.ev = "setProgram"
            /\ <<last.n, last.m>> = <<Entries[k].g, Entries[k].m>>
            /\ [i \in DOMAIN DrawEvents |-> [g |-> DrawEvents[i].n, m |-> DrawEvents[i].m]]
                  = SubSeq(Entries, 1, k - 1)
            /\ Len(SelectSeq(out.events, LAMBDA ev : ev.ev = "setProgram")) = k
            /\ r.stats.Graphics = k - 1
            /\ k <= Len(r.grmatsOpaque) =>
                  \A i \in DOMAIN out.events : out.events[i].b # "transp"

\* C10 witness: the second opaque entry failed after the first was drawn,
\* with a transparent bucket waiting.
C10_Witness ==
    /\ out.called /\ out.err # NoErr
    /\ out.failAt = 2
    /\ Len(r.grmatsOpaque) >= 2
    /\ Len(r.grmatsTransp) >= 1
    /\ Len(DrawEvents) = 1

\* The nodes below the root that were visible, with all their ancestors,
\* when the last Render call classified the scene.
SceneNodes == {n \in Nodes \ {Root} : EffVisible(n, out.vis)}

\* The scene is a drawable that is renderable, cullable, opaque and outside
\* the frustum, and an ambient light, below a plain root.
CulledDrawableAndLight(g, l) ==
    /\ EffVisible(Root, out.vis) /\ node[Root] = Other(0)
    /\ SceneNodes = {g, l} /\ g # l
    /\ node[g].kind = "graphic" /\ node[g].renderable /\ node[g].cullable
    /\ ~node[g].inFrustum /\ node[g].mats = <<FALSE>>
    /\ node[l].kind = "ambient"

\* C12 (as stated): the first Render call on such a scene puts the drawable
\* into the culled list and not into the visible one, draws nothing,
\* classifies the ambient light (ambient list and ambient maximum of 1),
\* counts it in the Lights statistic of the frame, and returns false.
C12_CulledSceneLightCounted ==
    \A g, l \in Nodes :
        (/\ out.called /\ out.ran /\ frames = 1
         /\ CulledDrawableAndLight(g, l))
            => /\ r.cgraphics = <<g>> /\ r.rgraphics = <<>>
               /\ DrawEvents = <<>>
               /\ r.ambLights = <<l>> /\ r.specs.AmbientLightsMax = 1
               /\ r.stats.Lights = 1
               /\ ~out.did

\* The view-space Z of the graphics of the entries of a bucket, in order.
BucketDepths(b) == [i \in DOMAIN b |-> node[b[i].g].z]

\* The entries i < j of the bucket b have the same render order.
SameRenderOrder(b, i, j) == i < j /\ node[b[i].g].renderOrder = node[b[j].g].renderOrder

\* C16 (as stated): with sorting on, entries of equal render order are in
\* ascending order of view-space Z in the opaque bucket and in descending
\* order of view-space Z in the transparent bucket.
C16_OpaqueAscendingZ ==
    (out.called /\ out.ran /\ r.sortObjects) =>
        /\ \A i, j \in DOMAIN r.grmatsOpaque :
              SameRenderOrder(r.grmatsOpaque, i, j)
                  => BucketDepths(r.grmatsOpaque)[i] <= BucketDepths(r.grmatsOpaque)[j]
        /\ \A i, j \in DOMAIN r.grmatsTransp :
              SameRenderOrder(r.grmatsTransp, i, j)
                  => BucketDepths(r.grmatsTransp)[i] >= BucketDepths(r.grmatsTransp)[j]

\* C16 (amended): with sorting on, entries of equal render order are in
\* descending order of view-space Z in the opaque bucket (front to back for
\* a camera that looks down -Z) and in ascending order of view-space Z in
\* the transparent bucket (back to front).
C16_OpaqueDescendingZ ==
    (out.called /\ out.ran /\ r.sortObjects) =>
        /\ \A i, j \in DOMAIN r.grmatsOpaque :
              SameRenderOrder(r.grmatsOpaque, i, j)
                  => BucketDepths(r.grmatsOpaque)[i] >= BucketDepths(r.grmatsOpaque)[j]
        /\ \A i, j \in DOMAIN r.grmatsTransp :
              SameRenderOrder(r.grmatsTransp, i, j)
                  => BucketDepths(r.grmatsTransp)[i] <= BucketDepths(r.grmatsTransp)[j]

\* C16 witness: three graphics of one render order met at Z = -10, -1, -5,
\* each with an opaque and a transparent material; the opaque bucket holds
\* them at Z = -1, -5, -10 and the transparent one at Z = -10, -5, -1.
C16_Witness ==
    /\ out.called /\ out.ran /\ r.sortObjects
    /\ r.rgraphics = <<2, 4, 3>>
    /\ <<node[2].z, node[4].z, node[3].z>> = <<-10, -1, -5>>
    /\ \A n \in {2, 3, 4} : Seen[n].renderOrder = 0 /\ Seen[n].mats = <<FALSE, TRUE>>
    /\ BucketDepths(r.grmatsOpaque) = <<-1, -5, -10>>
    /\ BucketDepths(r.grmatsTransp) = <<-10, -5, -1>>

\* C17: with sorting on, of two materials drawn from the same bucket the
\* one whose graphic has the smaller render order is drawn first, whatever
\* their view-space Z.
C17_RenderOrderFirst ==
    (out.called /\ r.sortObjects) =>
        \A i, j \in DOMAIN DrawEvents :
            (/\ IsTransparent(DrawEvents[i]) = IsTransparent(DrawEvents[j])
             /\ node[DrawEvents[i].n].renderOrder < node[DrawEvents[j].n].renderOrder)
                => i < j

\* C17 witness: in each bucket a material was drawn before one of a smaller
\* render order would have been by depth alone: the opaque one drawn first
\* is the farther, the transparent one drawn first is the nearer.
C17_Witness ==
    /\ out.called /\ r.sortObjects
    /\ \E i, j \in DOMAIN DrawEvents :
          /\ i < j
          /\ ~IsTransparent(DrawEvents[i]) /\ ~IsTransparent(DrawEvents[j])
          /\ node[DrawEvents[i].n].renderOrder < node[DrawEvents[j].n].renderOrder
          /\ node[DrawEvents[i].n].z < node[DrawEvents[j].n].z
    /\ \E i, j \in DOMAIN DrawEvents :
          /\ i < j
          /\ IsTransparent(DrawEvents[i]) /\ IsTransparent(DrawEvents[j])
          /\ node[DrawEvents[i].n].renderOrder < node[DrawEvents[j].n].renderOrder
          /\ node[DrawEvents[i].n].z > node[DrawEvents[j].n].z

\* The nodes of the subtree of n in depth-first order, parents first.
RECURSIVE Preorder(_), PreorderAll(_, _)
Preorder(n) == <<n>> \o PreorderAll(Children(n), 1)

PreorderAll(ch, i) == IF i > Len(ch) THEN <<>> ELSE Preorder(ch[i]) \o PreorderAll(ch, i + 1)

\* n is a graphic the last Render call had to draw.
ToDraw(n) ==
    /\ EffVisible(n, out.vis)
    /\ Seen[n].kind = "graphic" /\ Seen[n].renderable
    /\ Seen[n].cullable => Seen[n].inFrustum

\* The entries of the materials i.. of the graphic g that are transparent
\* (transp = TRUE) or opaque (transp = FALSE), in the order of its list.
RECURSIVE MaterialsOf(_, _, _)
MaterialsOf(g, transp, i) ==
    IF i > Len(node[g].mats) THEN <<>>
    ELSE (IF node[g].mats[i] = transp THEN <<[g |-> g, m |-> i]>> ELSE <<>>)
            \o MaterialsOf(g, transp, i + 1)

\* The entries of a bucket in insertion order: graphics in the depth-first
\* order of the scene graph from its i-th node on, materials in list order.
RECURSIVE InsertionOrder(_, _)
InsertionOrder(transp, i) ==
    IF i > Len(Preorder(Root)) THEN <<>>
    ELSE (IF ToDraw(Preorder(Root)[i]) THEN MaterialsOf(Preorder(Root)[i], transp, 1)
          ELSE <<>>)
            \o InsertionOrder(transp, i + 1)

\* The bucket entries drawn by the last Render call, in submission order.
Drawn == [i \in DOMAIN DrawEvents |-> [g |-> DrawEvents[i].n, m |-> DrawEvents[i].m]]

\* C18: with sorting off, each bucket holds its entries in insertion order
\* (graphics in depth-first order, the materials of a graphic in list
\* order), whatever the render orders and depths, and a Render call in
\* which no SetProgram fails draws them in that order.
C18_UnsortedKeepsInsertionOrder ==
    (out.called /\ out.ran /\ ~r.sortObjects) =>
        /\ r.grmatsOpaque = InsertionOrder(FALSE, 1)
        /\ r.grmatsTransp = InsertionOrder(TRUE, 1)
        /\ out.failAt = 0 => Drawn = InsertionOrder(FALSE, 1) \o InsertionOrder(TRUE, 1)

\* C18 witness: with sorting off, the opaque bucket was drawn in the order
\* of the graphics 2, 4, 3 although the render order of the first is larger
\* than that of the second and the second is farther than the third.
C18_Witness ==
    /\ out.called /\ out.ran /\ ~r.sortObjects /\ out.failAt = 0
    /\ r.rgraphics = <<2, 4, 3>>
    /\ \A n \in {2, 3, 4} : Seen[n].mats = <<FALSE>>
    /\ node[2].renderOrder > node[4].renderOrder
    /\ node[4].renderOrder = node[3].renderOrder /\ node[4].z < node[3].z
    /\ Drawn = <<[g |-> 2, m |-> 1], [g |-> 4, m |-> 1], [g |-> 3, m |-> 1]>>

\* The nodes of a list of the classification.
ListNodes(s) == {s[i] : i \in DOMAIN s}

\* C19 (as stated): a visible, renderable graphic, the scene root included,
\* that is cullable is in the visible
\* list exactly when its bounding box intersects the frustum, and in the
\* culled list otherwise; one that is not cullable is in the visible list;
\* a graphic in the culled list has no bucket entry and nothing of the
\* frame (shader resolution, draw) is its own.
C19_FrustumCulling ==
    Classification =>
        /\ \A n \in Nodes :
              (EffVisible(n, out.vis) /\ node[n].kind = "graphic" /\ node[n].renderable)
                  => IF node[n].cullable /\ ~node[n].inFrustum
                     THEN n \in ListNodes(r.cgraphics) /\ n \notin ListNodes(r.rgraphics)
                     ELSE n \in ListNodes(r.rgraphics) /\ n \notin ListNodes(r.cgraphics)
        /\ \A n \in ListNodes(r.cgraphics) : n \notin BucketNodes /\ n \notin EventNodes

\* The nodes whose render hook the last Render call ran, in order.
HooksRun ==
    LET hooks == SelectSeq(out.events, LAMBDA ev : ev.ev = "hook")
    IN  [i \in DOMAIN hooks |-> hooks[i].n]

\* The hook of the i-th node of r.others is due: no node before it in the
\* list whose own hook was due hides it.
RECURSIVE HookDue(_)
HookDue(i) ==
    \A j \in 1..(i - 1) :
        ~(HookDue(j) /\ Seen[r.others[j]].hides = r.others[i])

\* The nodes of r.others[i..] whose hook is due.
RECURSIVE HooksDue(_)
HooksDue(i) ==
    IF i > Len(r.others) THEN <<>>
    ELSE (IF HookDue(i) THEN <<r.others[i]>> ELSE <<>>) \o HooksDue(i + 1)

\* C20: the render hooks run are those of the nodes of r.others that no
\* hook run earlier in the frame has hidden, in list order, and the Others
\* statistic of the frame is their number.
C20_HooksOfVisibleOthers ==
    Classification =>
        /\ HooksRun = HooksDue(1)
        /\ r.stats.Others = Len(HooksRun)

\* C20 witness: the hook of the second node of the list hid the third,
\* whose own hook, which would have hidden the fourth, was skipped: the hook
\* of the fourth ran.  The root is of a type whose hook hides the fourth
\* node, but the renderer runs the hook of its core.Node.
C20_Witness ==
    /\ Classification
    /\ r.others = <<1, 2, 4, 3>>
    /\ node[1].hides = 3 /\ node[2].hides = 4 /\ node[4].hides = 3
    /\ HooksRun = <<1, 2, 3>>
    /\ r.stats.Others = 3

\* The setups of the lights of one classified list, in list order, each with
\* its position in the list, counted from 0, as index.
LightSetups(kind, lights) ==
    [j \in DOMAIN lights |-> Event("light", lights[j], j - 1, kind, <<>>)]

\* The light setups of one bucket entry: the four lists in the order
\* ambient, directional, point, spot.
AllLightSetups ==
    LightSetups("ambient", r.ambLights) \o LightSetups("directional", r.dirLights)
        \o LightSetups("point", r.pointLights) \o LightSetups("spot", r.spotLights)

\* C21: every draw of a Render call is preceded by the SetProgram call of
\* its bucket entry, and what happens between the two is the setup of every
\* classified light, once, kind after kind in the order ambient,
\* directional, point, spot, each with its position in its list (from 0) as
\* index: the same setups, with the same indices, for every entry drawn.
C21_LightsSetUpPerEntry ==
    out.called =>
        \A i \in DOMAIN out.events :
            out.events[i].ev = "draw" =>
                \E p \in 1..(i - 1) :
                    /\ out.events[p].ev = "setProgram"
                    /\ <<out.events[p].n, out.events[p].m, out.events[p].b>>
                          = <<out.events[i].n, out.events[i].m, out.events[i].b>>
                    /\ SubSeq(out.events, p + 1, i - 1) = AllLightSetups

\* C21 witness: two entries were drawn in a frame with two point lights,
\* set up with the indices 0 and 1 for each of the two entries.
C21_Witness ==
    /\ out.called /\ out.err = NoErr
    /\ Len(DrawEvents) = 2
    /\ Len(r.pointLights) = 2
    /\ Len(SelectSeq(out.events, LAMBDA ev : ev.ev = "light" /\ ev.m = 1)) = 2
    /\ r.stats.Lights = 4

\* C22 (as stated): a Render call on a scene leaves the number of graphics
\* it drew as the previous-frame count the next clear decision reads, also
\* when it returns a SetProgram error after draws; and it issues a clear
\* when the Render call before it drew a graphic.
C22_GraphicsCountRecorded ==
    (out.called /\ out.ran) =>
        /\ r.prevStats.Graphics = Draws(out.events)
        /\ out.prevDraws >= 1 => Cleared

\* The last three requests are the combined form op of a blend setter, its
\* separate form sep with values other than those of the combined call, and
\* the combined call again.
Interleaved(op, sep) ==
    /\ Len(reqs) >= 3
    /\ reqs[Len(reqs) - 2].op = op
    /\ reqs[Len(reqs) - 1].op = sep
    /\ reqs[Len(reqs)].op = op
    /\ reqs[Len(reqs)].args = reqs[Len(reqs) - 2].args
    /\ reqs[Len(reqs) - 1].args # reqs[Len(reqs)].args \o reqs[Len(reqs)].args

\* C23 (as stated): after BlendEquation(m), BlendEquationSeparate(a, b) with
\* (a, b) other than (m, m) and BlendEquation(m) again, the driver's blend
\* equation is m for RGB and alpha; likewise the driver's blend factors
\* after BlendFunc(s, d), BlendFuncSeparate of other factors and
\* BlendFunc(s, d) again.
C23_InterleavedBlendReachesDriver ==
    /\ Interleaved("BlendEquation", "BlendEquationSeparate")
          => gl.blendEquation = reqs[Len(reqs)].args \o reqs[Len(reqs)].args
    /\ Interleaved("BlendFunc", "BlendFuncSeparate")
          => gl.blendFunc = reqs[Len(reqs)].args \o reqs[Len(reqs)].args

\* The Enable and Disable calls so far that were elided, those New() made
\* included.
CapHits ==
    SelectSeq(reqs, LAMBDA q : q.op \in {"Enable", "Disable"} /\ q.ncalls = 0)

\* C24: the Caphits counter is the number of elided Enable and Disable
\* calls (one more for each of them, nothing for a call that reaches the
\* driver or for any other setter, elided or not), and an Enable that
\* follows a Disable of the same capability, or a Disable that follows an
\* Enable of it, is never elided.
C24_CaphitsCountsElidedCaps ==
    /\ gs.stats.Caphits = Len(CapHits)
    /\ \A i \in 1..(Len(reqs) - 1) :
          (/\ {reqs[i].op, reqs[i + 1].op} = {"Enable", "Disable"}
           /\ reqs[i].args = reqs[i + 1].args)
              => reqs[i + 1].ncalls = 1

\* C24 witness: after New(), which counted one hit, an elided DepthFunc
\* counted none, an elided Enable counted one, and the Disable of the same
\* capability that followed reached the driver and counted none.
C24_Witness ==
    /\ Len(reqs) = NewReqs + 3
    /\ reqs[NewReqs + 1].op = "DepthFunc" /\ reqs[NewReqs + 1].ncalls = 0
    /\ reqs[NewReqs + 2].op = "Enable" /\ reqs[NewReqs + 2].ncalls = 0
    /\ reqs[NewReqs + 3].op = "Disable" /\ reqs[NewReqs + 3].ncalls = 1
    /\ reqs[NewReqs + 3].args = reqs[NewReqs + 2].args
    /\ gs.stats.Caphits = Len(SelectSeq(SubSeq(reqs, 1, NewReqs),
                                        LAMBDA q : q.ncalls = 0)) + 1
    /\ gs.stats.Caphits = 2

\* The number of times the pair (g, m) is an entry of the bucket b.
TimesIn(b, g, m) == Len(SelectSeq(b, LAMBDA x : x = [g |-> g, m |-> m]))

\* The drawables of the visible list.
VisibleGraphics == {r.rgraphics[i] : i \in DOMAIN r.rgraphics}

\* C25: after a Render call on a scene, every material of every drawable of
\* the visible list is once in the transparent bucket and not in the opaque
\* one if its transparency flag is set, and once in the opaque bucket and
\* not in the transparent one otherwise; every bucket entry is such a pair;
\* and when the call returned no error, the draws submitted and the
\* Graphics counter of the frame both number the entries of the two buckets.
C25_BucketsHoldEveryMaterialOnce ==
    Classification =>
        /\ \A g \in VisibleGraphics :
              \A m \in DOMAIN node[g].mats :
                  IF node[g].mats[m]
                  THEN TimesIn(r.grmatsTransp, g, m) = 1 /\ TimesIn(r.grmatsOpaque, g, m) = 0
                  ELSE TimesIn(r.grmatsOpaque, g, m) = 1 /\ TimesIn(r.grmatsTransp, g, m) = 0
        /\ \A i \in DOMAIN Entries :
              /\ Entries[i].g \in VisibleGraphics
              /\ Entries[i].m \in DOMAIN node[Entries[i].g].mats
        /\ out.err = NoErr =>
              /\ Len(DrawEvents) = Len(Entries)
              /\ r.stats.Graphics = Len(Entries)

\* C25 witness: a frame of three drawables, two of them with an opaque and
\* a transparent material, rendered without error: five entries, of which
\* two or more in each bucket, and five draws.
C25_Witness ==
    /\ Classification /\ out.err = NoErr
    /\ Len(r.rgraphics) = 3
    /\ Len(r.grmatsOpaque) >= 2 /\ Len(r.grmatsTransp) >= 2
    /\ Len(Entries) = 5
    /\ Len(DrawEvents) = 5 /\ r.stats.Graphics = 5

\* The events of the last Render call of one of the kinds evs, as positions
\* in out.events.
EventsOf(evs) == {i \in DOMAIN out.events : out.events[i].ev \in evs}

\* C26: in a Render call, every render hook of an other node runs before
\* the clear and before every SetProgram call, light setup and draw; the
\* clear, of which there is one at most, comes before every SetProgram call,
\* light setup and draw.
C26_HooksThenClearThenDraws ==
    out.called =>
        /\ \A i \in EventsOf({"hook"}) :
              \A j \in EventsOf({"clear", "setProgram", "light", "draw"}) : i < j
        /\ \A i \in EventsOf({"clear"}) :
              \A j \in EventsOf({"setProgram", "light", "draw"}) : i < j
        /\ Cardinality(EventsOf({"clear"})) <= 1

\* C26 witness: a frame with two hooks, a clear, a light setup and a draw.
C26_Witness ==
    /\ out.called /\ out.err = NoErr
    /\ Cardinality(EventsOf({"hook"})) = 2
    /\ Cardinality(EventsOf({"clear"})) = 1
    /\ EventsOf({"light"}) # {}
    /\ EventsOf({"draw"}) # {}

\* C27: a Render call with the scene set to nil does nothing (no hook, no
\* clear, no SetProgram call, no light setup, no draw), returns false and
\* no error, and leaves every counter of the frame statistics at zero,
\* whatever the frames before it rendered.
C27_NilSceneRendersNothing ==
    (out.called /\ ~out.ran) =>
        /\ out.events = <<>>
        /\ ~out.did /\ out.err = NoErr
        /\ r.stats = RStats0

\* C27 witness: the second Render call had no scene; the first had one,
\* cleared the screen and drew graphics.
C27_Witness ==
    /\ frames = 2 /\ out.called /\ ~out.ran
    /\ r.scene = 0
    /\ out.prevDraws >= 2 /\ out.prevErr = NoErr
    /\ r.grmatsOpaque # <<>>
    /\ ~out.did /\ r.stats.Graphics = 0

\* C28: the boolean a Render call returns is true exactly when that call
\* issued a frame-buffer clear, whether or not it ran render hooks or
\* returned an error, and whatever the call before it returned.
C28_ReturnsTrueIffCleared ==
    out.called => (out.did <=> Cleared)

\* C28 witness: the Render call before cleared the screen (it got as far as
\* a SetProgram call, which failed); this one, on a scene, ran a render hook,
\* had nothing to draw, issued no clear and returned false.
C28_Witness ==
    /\ frames = 2 /\ out.called /\ out.ran
    /\ out.prevErr # NoErr
    /\ EventsOf({"hook"}) # {}
    /\ ~Cleared /\ ~out.did

\* The fields of the GLS a setter writes.
SlotsOf(op) ==
    CASE op = "ActiveTexture" -> {"activeTexture"}
      [] op = "BlendEquation" -> {"blendEquation"}
      [] op = "BlendEquationSeparate" -> {"blendEquationRGB", "blendEquationAlpha"}
      [] op = "BlendFunc" -> {"blendSrc", "blendDst"}
      [] op = "BlendFuncSeparate" ->
            {"blendSrcRGB", "blendDstRGB", "blendSrcAlpha", "blendDstAlpha"}
      [] op = "DepthFunc" -> {"depthFunc"}
      [] op = "DepthMask" -> {"depthMask"}
      [] op \in {"Enable", "Disable"} -> {"capabilities"}
      [] op = "FrontFace" -> {"frontFace"}
      [] op = "LineWidth" -> {"lineWidth"}
      [] op = "PolygonMode" -> {"polygonModeFace", "polygonModeMode"}
      [] op = "PolygonOffset" -> {"polygonOffsetFactor", "polygonOffsetUnits"}
      [] op = "Viewport" -> {"viewportX", "viewportY", "viewportWidth", "viewportHeight"}

\* The values the GLS g caches for the setter call q, in argument order.
SlotValues(g, q) ==
    CASE q.op = "ActiveTexture" -> <<g.activeTexture>>
      [] q.op = "BlendEquation" -> <<g.blendEquation>>
      [] q.op = "BlendEquationSeparate" -> <<g.blendEquationRGB, g.blendEquationAlpha>>
      [] q.op = "BlendFunc" -> <<g.blendSrc, g.blendDst>>
      [] q.op = "BlendFuncSeparate" ->
            <<g.blendSrcRGB, g.blendDstRGB, g.blendSrcAlpha, g.blendDstAlpha>>
      [] q.op = "DepthFunc" -> <<g.depthFunc>>
      [] q.op = "DepthMask" -> <<g.depthMask>>
      [] q.op \in {"Enable", "Disable"} -> <<g.capabilities[q.args[1]]>>
      [] q.op = "FrontFace" -> <<g.frontFace>>
      [] q.op = "LineWidth" -> <<g.lineWidth>>
      [] q.op = "PolygonMode" -> <<g.polygonModeFace, g.polygonModeMode>>
      [] q.op = "PolygonOffset" -> <<g.polygonOffsetFactor, g.polygonOffsetUnits>>
      [] q.op = "Viewport" ->
            <<g.viewportX, g.viewportY, g.viewportWidth, g.viewportHeight>>

\* The live-resource counts of the statistics of the GLS g.
ResourceCounts(g) == [n \in {"Shaders", "Vaos", "Buffers", "Textures"} |-> g.stats[n]]

\* The setter call q took the GLS from g to h writing its own slots only.
OwnSlotsOnly(g, h, q) ==
    /\ \A fld \in (DOMAIN g) \ (SlotsOf(q.op) \cup {"stats"}) : h[fld] = g[fld]
    /\ q.op \in {"Enable", "Disable"} =>
          \A c \in CapIds \ {q.args[1]} : h.capabilities[c] = g.capabilities[c]
    /\ ResourceCounts(h) = ResourceCounts(g)
    /\ IF q.ncalls = 0
       THEN CachedState(h) = CachedState(g)
       ELSE SlotValues(h, q) = q.val

\* C29: a state-setter call changes nothing of the GLS but its own cached
\* slots: a call that reaches the driver leaves the requested values in the
\* slots of its setter, an elided call changes no cached value, and both
\* leave the slots of the other setters, the flags of the other
\* capabilities, the current program, the known programs and the
\* live-resource counts as they were.
C29_SetterWritesOwnSlotsOnly ==
    [][(Requested /\ reqs'[Len(reqs')].op \in SetterOps)
          => OwnSlotsOnly(gs, gs', reqs'[Len(reqs')])]_vars

\* C29 witness: a PolygonMode call reached the driver after an elided
\* DepthFunc call and a Disable that reached the driver: the capability is
\* still cached as disabled and the depth function is the one New() set.
C29_Witness ==
    /\ Len(reqs) = NewReqs + 3
    /\ reqs[NewReqs + 1].op = "DepthFunc" /\ reqs[NewReqs + 1].ncalls = 0
    /\ reqs[NewReqs + 2].op = "Disable" /\ reqs[NewReqs + 2].ncalls = 1
    /\ LastReq.op = "PolygonMode" /\ LastReq.ncalls = 1
    /\ gs.capabilities[reqs[NewReqs + 2].args[1]] = capDisabled
    /\ gs.depthFunc = LEQUAL
    /\ <<gs.polygonModeFace, gs.polygonModeMode>> = LastReq.args

\* The number of lights of one kind that were visible, with all their
\* ancestors, when the last Render call classified the scene.
LightCount(kind) ==
    Cardinality({n \in Nodes :
                    EffVisible(n, out.vis) /\ Seen[n].kind = kind})

\* The four light-count maxima of the shader specs.
LightsMax ==
    <<r.specs.AmbientLightsMax, r.specs.DirLightsMax, r.specs.PointLightsMax,
      r.specs.SpotLightsMax>>

\* C30: after a Render call on a scene, the four light-count maxima are the
\* sizes of the four light lists, which hold the lights of this frame and
\* no light of an earlier one, and every SetProgram call of the frame was
\* made with these four values.
C30_LightMaximaOfThisFrame ==
    Classification =>
        /\ LightsMax = <<Len(r.ambLights), Len(r.dirLights), Len(r.pointLights),
                         Len(r.spotLights)>>
        /\ LightsMax = <<LightCount("ambient"), LightCount("directional"),
                         LightCount("point"), LightCount("spot")>>
        /\ \A i \in EventsOf({"setProgram"}) : out.events[i].x = LightsMax

\* C30 witness: the second Render call, after one that drew graphics, with
\* one ambient light visible and two or more bucket entries resolved.
C30_Witness ==
    /\ frames = 2 /\ Classification
    /\ out.prevDraws >= 1
    /\ node[3].kind = "ambient" /\ EffVisible(3, out.vis)
    /\ LightsMax = <<1, 0, 0, 0>>
    /\ Cardinality(EventsOf({"setProgram"})) >= 2

====
